---- MODULE Spec2Model ----
(***************************************************************************)
(* Model of the asynchronous metering pipeline of the Revenium middleware  *)
(* for Fal.ai: the orchestrator (GenerateImage / GenerateVideo, Flush,     *)
(* Close) of revenium/middleware.go and the delivery client (sendMetering, *)
(* sendMeteringRequest) of revenium/metering.go.                           *)
(*                                                                         *)
(* One generation call is one element of Calls.  A call's background       *)
(* goroutine is identified with the call that dispatched it.  A goroutine  *)
(* is observed where it can be suspended: before it is scheduled, while it *)
(* builds the record, while an HTTP exchange is in flight and while it     *)
(* sleeps in backoff.                                                      *)
(*                                                                         *)
(* Spec runs MaxCalls concurrent calls against one status of each class    *)
(* and shuts down with Close, whose first statement is Flush; SpecDelivery *)
(* runs one call against every status of Statuses and the transport        *)
(* failure, with Flush and Close.                                          *)
(***************************************************************************)
EXTENDS Integers, Sequences, FiniteSets, TLC

\* ---------------------------------------------------------------- bounds
MaxCalls == 2
Calls == 1..MaxCalls

\* Threads that call Initialize, GetClient, IsInitialized and Reset.
MaxProcs == 2
Procs == 1..MaxProcs

\* ReveniumFal values Initialize may allocate in one run.
MaxClients == 2
ClientIds == 1..MaxClients

\* Metering tasks in flight at once on the clients obtained from GetClient.
MaxInFlight == 1

\* Images in one provider response.
MaxImages == 2

\* Ticks of the nanosecond clock while transaction ids are generated.
MaxTicks == 3

\* Path pieces appended to a host to make a base URL.
MaxSegments == 2

\* Metadata maps and contexts allocated in one run.
MaxMaps == 3
MaxContexts == 2

\* Plain errors wrapped around a classified error.
MaxWraps == 2

\* ------------------------------------------------------ program constants
\* A retry budget one short of the source's.
maxRetriesShort == 3 - 1

\* A retry budget one beyond the source's.
maxRetriesLong == 3 + 1

maxRetries == 3
initialBackoff == 100

\* Operation kinds a caller can invoke.
Kinds == {"image", "video"}

\* Where several calls run concurrently they alternate between the two
\* entry points: odd calls are GenerateImage, even calls GenerateVideo.
KindOf(c) == IF c % 2 = 1 THEN "image" ELSE "video"

\* HTTP status codes the billing endpoint may answer with; 0 stands for a
\* transport-level failure of meteringHTTPClient.Do (no response at all).
TransportFailure == 0
Statuses == {200, 299, 300, 399, 400, 422, 499, 500}
Outcomes == Statuses \cup {TransportFailure}

\* The answers used where several calls run concurrently: one status of each
\* class the delivery client distinguishes (success, rejected, retried).
ClassOutcomes == {200, 422, 500}

\* Errors the provider collaborator (FalClient) can return.
ProviderErrors == {"PROVIDER", "NETWORK"}

\* ----------------------------------------------------------------- errors
\* An error value is the chain of its kinds, outermost first; nil is <<>>.
NilErr == <<>>

NewError(kind, cause) == <<kind>> \o cause

NewValidationError(cause) == NewError("VALIDATION", cause)

NewMeteringError(cause) == NewError("METERING", cause)

NewNetworkError(cause) == NewError("NETWORK", cause)

NewProviderError(cause) == NewError("PROVIDER", cause)

\* Kind of the top-level error.
ErrKind(e) == IF e = NilErr THEN "nil" ELSE Head(e)

\* True when the error, or an error it wraps, is of the Validation kind.
IsValidationError(e) == \E i \in 1..Len(e) : e[i] = "VALIDATION"

IsNetworkError(e) == \E i \in 1..Len(e) : e[i] = "NETWORK"

IsProviderError(e) == \E i \in 1..Len(e) : e[i] = "PROVIDER"

IsMeteringError(e) == \E i \in 1..Len(e) : e[i] = "METERING"

\* --------------------------------------------------------- delivery client
\* URL path of SendImageMetering / SendVideoMetering below the base URL.
MeteringPath(kind) ==
    IF kind = "image" THEN "/meter/v2/ai/images" ELSE "/meter/v2/ai/video"

\* A status check whose 4xx range starts one too high (`> 400`).
StatusErrorOpen4xx(s) ==
    IF s < 200 \/ s >= 300
    THEN IF s > 400 /\ s < 500
         THEN NewValidationError(NilErr)
         ELSE NewMeteringError(<<"status">>)
    ELSE NilErr

\* A status check whose success range starts one too high (`<= 200`).
StatusErrorOpen2xx(s) ==
    IF s <= 200 \/ s >= 300
    THEN IF s >= 400 /\ s < 500
         THEN NewValidationError(NilErr)
         ELSE NewMeteringError(<<"status">>)
    ELSE NilErr

\* Status check of sendMeteringRequest: the error returned for a response
\* with status code s.
StatusError(s) ==
    IF s < 200 \/ s >= 300
    THEN IF s >= 400 /\ s < 500
         THEN NewValidationError(NilErr)
         ELSE NewMeteringError(<<"status">>)
    ELSE NilErr

\* A transport failure classified as a rejection of the record.
RequestErrorTransportValidation(o) ==
    IF o = TransportFailure
    THEN NewValidationError(<<"transport">>)
    ELSE StatusError(o)

\* Error returned by one sendMeteringRequest whose HTTP exchange ended with
\* outcome o.
RequestError(o) ==
    IF o = TransportFailure
    THEN NewNetworkError(<<"transport">>)
    ELSE StatusError(o)

\* Error returned by sendMeteringRequest when json.Marshal rejects the record.
MarshalError == NewMeteringError(<<"json">>)

\* A backoff that is never doubled.
NextBackoffConstant(b) == b

\* backoff *= 2
NextBackoff(b) == b * 2

\* ---------------------------------------------------------------- strings
\* A Go string is the sequence of its characters.
EmptyString == <<>>

\* strings.HasPrefix
HasPrefix(s, prefix) ==
    /\ Len(s) >= Len(prefix)
    /\ SubSeq(s, 1, Len(prefix)) = prefix

\* ---------------------------------------------------------- configuration
NewConfigError(cause) == NewError("CONFIG", cause)

IsConfigError(e) == \E i \in 1..Len(e) : e[i] = "CONFIG"

\* The literal the Revenium API key must start with.
hakPrefix == <<"h", "a", "k", "_">>

\* Values of the string fields of Config that occur in the model.
FalKeys == {EmptyString, <<"f">>, <<"g">>}

RevKeys ==
    { EmptyString,
      <<"h">>,
      <<"h", "a", "k">>,
      hakPrefix,
      hakPrefix \o <<"1">>,
      hakPrefix \o <<"2">>,
      <<"h", "a", "k", "-", "1">>,
      <<"H", "A", "K", "_", "1">>,
      <<"x">> \o hakPrefix,
      <<"k", "e", "y", "_", "1">> }

OrgIds == {EmptyString, <<"o", "1">>, <<"o", "2">>}

\* The fields of Config that Initialize, Validate and the options below
\* read or write; the other fields (base URLs, timeout, product id, log
\* settings) take their defaults and play no part in validation.
Configs ==
    [FalAPIKey : FalKeys, ReveniumAPIKey : RevKeys, ReveniumOrgID : OrgIds]

\* &Config{}
ZeroConfig ==
    [FalAPIKey |-> EmptyString, ReveniumAPIKey |-> EmptyString,
     ReveniumOrgID |-> EmptyString]

\* The environment variables loadFromEnv reads into those fields.
Environments ==
    [FAL_API_KEY : {EmptyString, <<"f">>},
     REVENIUM_METERING_API_KEY :
         {EmptyString, hakPrefix \o <<"1">>, <<"k", "e", "y", "_", "1">>},
     REVENIUM_ORGANIZATION_ID : {EmptyString, <<"o", "1">>}]

EmptyEnv ==
    [FAL_API_KEY |-> EmptyString, REVENIUM_METERING_API_KEY |-> EmptyString,
     REVENIUM_ORGANIZATION_ID |-> EmptyString]

\* WithFalAPIKey(key), WithReveniumAPIKey(key), WithReveniumOrgID(id): an
\* option is the pair of the field it sets and the value it sets it to.
WithFalAPIKey(key) == <<"FalAPIKey", key>>

WithReveniumAPIKey(key) == <<"ReveniumAPIKey", key>>

WithReveniumOrgID(id) == <<"ReveniumOrgID", id>>

\* opt(cfg)
ApplyOption(c, opt) == [c EXCEPT ![opt[1]] = opt[2]]

\* for _, opt := range opts { opt(cfg) }
RECURSIVE ApplyOptions(_, _)
ApplyOptions(c, opts) ==
    IF opts = <<>>
    THEN c
    ELSE ApplyOptions(ApplyOption(c, Head(opts)), Tail(opts))

\* Config.loadFromEnv: a field still empty takes the environment's value.
loadFromEnv(c, e) ==
    [FalAPIKey |->
         IF c.FalAPIKey = EmptyString THEN e.FAL_API_KEY ELSE c.FalAPIKey,
     ReveniumAPIKey |->
         IF c.ReveniumAPIKey = EmptyString
         THEN e.REVENIUM_METERING_API_KEY
         ELSE c.ReveniumAPIKey,
     ReveniumOrgID |->
         IF c.ReveniumOrgID = EmptyString
         THEN e.REVENIUM_ORGANIZATION_ID
         ELSE c.ReveniumOrgID]

\* A format check that looks at the first three characters only.
isValidReveniumAPIKeyShort(key) ==
    IF Len(key) < 3
    THEN FALSE
    ELSE SubSeq(key, 1, 3) = SubSeq(hakPrefix, 1, 3)

isValidReveniumAPIKey(key) ==
    IF Len(key) < 4
    THEN FALSE
    ELSE SubSeq(key, 1, 4) = hakPrefix

\* Config.Validate
Validate(c) ==
    IF c.FalAPIKey = EmptyString
    THEN NewConfigError(NilErr)
    ELSE IF c.ReveniumAPIKey = EmptyString
         THEN NewConfigError(NilErr)
         ELSE IF ~isValidReveniumAPIKey(c.ReveniumAPIKey)
              THEN NewConfigError(NilErr)
              ELSE NilErr

\* ------------------------------------------------------------------ state
VARIABLES
    callPc,      \* position of each generation call
    callKind,    \* "image" / "video" once the call has started
    provOut,     \* outcome of the provider call: "pending", "ok" or an error
    result,      \* what GenerateImage/GenerateVideo returned to the caller
    cancelled,   \* the caller has cancelled the context of the call
    cancelAt,    \* how far the call's task had got when it did
    wg,          \* ReveniumFal.wg: the in-flight counter
    taskPc,      \* position of each background metering goroutine
    taskUrl,     \* URL path the task posts to
    marshalOk,   \* whether the built record can be serialized
    attempt,     \* loop variable of sendMetering
    backoff,     \* local backoff of sendMetering, milliseconds
    slept,       \* durations of the time.Sleep calls made so far
    reqs,        \* calls of sendMeteringRequest made so far
    posts,       \* HTTP POSTs handed to the transport so far
    sent,        \* the HTTP requests of those POSTs
    lastOut,     \* outcome of the latest HTTP exchange, -1 if none
    lastErr,     \* local lastErr of sendMetering
    sendErr,     \* value returned by sendMetering, <<"unset">> before
    panicked,    \* the task raised a panic
    wgDone,      \* number of wg.Done calls made by the task
    crashed,     \* an unrecovered panic terminated the process
    flushPc,     \* position of the thread calling Flush / Close
    flushOp,     \* "Flush" or "Close"
    flushAt      \* how far each call had got when Flush was called

VARIABLES
    env,          \* the process environment, .env files included
    initialized,  \* package variable initialized
    globalClient, \* package variable globalClient
    globalMu,     \* holder of globalMu's write lock, 0 when it is free
    gPc,          \* position of each thread using the package-level API
    gOpts,        \* the options of the thread's Initialize call
    gCfg,         \* cfg, the local Config of the thread's Initialize call
    gRet,         \* what the thread's latest call returned
    allocated,    \* ReveniumFal values allocated by Initialize so far
    installs,     \* Initialize calls that set globalClient since the last Reset
    clientWg      \* wg of each allocated ReveniumFal

VARIABLES
    cfg,          \* a Config value under construction
    cfgSeen,      \* the Config as it was when Validate was called
    validateErr,  \* what Validate returned for it, <<"unset">> before
    args,         \* arguments of the latest payload builder call
    payload       \* the MeteringPayload it returned

VARIABLES
    now,          \* time.Now().UnixNano(), as an offset from an epoch
    txReads,      \* clock readings each generateTransactionID call has made
    txId          \* the transaction id it returned, <<"unset">> before

VARIABLES
    maps,         \* the map[string]interface{} values allocated so far
    ctxs,         \* the context.Context values created so far
    mdCall        \* the latest metadata helper call and what it returned

VARIABLES
    urlArg,       \* the argument of NormalizeReveniumBaseURL, <<"unset">> before
    urlRet        \* what it returned

VARIABLES
    errCall       \* the latest error handed to the kind predicates

VARIABLES
    objects,      \* the request, response and metadata map the caller holds
    captured,     \* locals of GenerateImage / GenerateVideo the task is given
    providerTime, \* nanoseconds that passed while the provider call ran
    atCompletion, \* objects as they were when the provider call completed
    record,       \* the MeteringPayload the task built
    bodies        \* json.Marshal(payload) of each request made

clientVars == <<callPc, callKind, provOut, result, cancelled, cancelAt, wg,
                taskPc, taskUrl, marshalOk, attempt, backoff, slept, reqs,
                posts, sent, lastOut, lastErr, sendErr, panicked, wgDone,
                crashed, flushPc, flushOp, flushAt>>

globalVars == <<env, initialized, globalClient, globalMu, gPc, gOpts, gCfg,
                gRet, allocated, installs, clientWg>>

configVars == <<cfg, cfgSeen, validateErr>>

builderVars == <<args, payload>>

transactionVars == <<now, txReads, txId>>

metadataVars == <<maps, ctxs, mdCall>>

urlVars == <<urlArg, urlRet>>

errorVars == <<errCall>>

recordVars ==
    <<objects, captured, providerTime, atCompletion, record, bodies>>

utilityVars ==
    <<transactionVars, metadataVars, urlVars, errorVars, recordVars>>

vars == <<clientVars, globalVars, configVars, builderVars, utilityVars>>

\* What the steps of one specification leave alone.
exceptGlobal == <<clientVars, configVars, builderVars, utilityVars>>

exceptConfig == <<clientVars, globalVars, builderVars, utilityVars>>

exceptBuilder == <<clientVars, globalVars, configVars, utilityVars>>

exceptTransaction ==
    <<clientVars, globalVars, configVars, builderVars, metadataVars, urlVars,
      errorVars, recordVars>>

exceptMetadata ==
    <<clientVars, globalVars, configVars, builderVars, transactionVars,
      urlVars, errorVars, recordVars>>

exceptURL ==
    <<clientVars, globalVars, configVars, builderVars, transactionVars,
      metadataVars, errorVars, recordVars>>

exceptErrors ==
    <<clientVars, globalVars, configVars, builderVars, transactionVars,
      metadataVars, urlVars, recordVars>>

exceptRecord ==
    <<globalVars, configVars, builderVars, transactionVars, metadataVars,
      urlVars, errorVars>>

exceptClock ==
    <<clientVars, globalVars, configVars, builderVars, metadataVars, urlVars,
      errorVars>>

callVars == <<callPc, callKind, provOut, result, cancelled, cancelAt>>

deliveryVars == <<taskUrl, marshalOk, attempt, backoff, slept, reqs, posts,
                  sent, lastOut, lastErr, sendErr>>

flushVars == <<flushPc, flushOp, flushAt>>

Unset == <<"unset">>

NoResult == [resp |-> "none", err |-> "none"]

InFlight == {c \in Calls : taskPc[c] \notin {"none", "done"}}

\* Calls that had returned to their caller when Flush was called.
ReturnedBeforeFlush == {c \in Calls : flushAt[c] = "returned"}

\* Calls whose task had been dispatched (wg.Add(1) done) when Flush was called.
DispatchedBeforeFlush == {c \in Calls : flushAt[c] # "no" /\ provOut[c] = "ok"}

\* A nil *ReveniumFal.
NilClient == [id |-> 0]

\* A thread that has not called anything yet.
NoReturn == [op |-> "none"]

\* No payload builder has been called.
NoArgs == [fn |-> "none"]

NoPayload == [OperationType |-> "none"]

\* The package variables as the Go runtime initializes them, in a process
\* whose environment is e.
GlobalInit(e) ==
    /\ env = e
    /\ initialized = FALSE
    /\ globalClient = NilClient
    /\ globalMu = 0
    /\ gPc = [p \in Procs |-> "idle"]
    /\ gOpts = [p \in Procs |-> <<>>]
    /\ gCfg = [p \in Procs |-> ZeroConfig]
    /\ gRet = [p \in Procs |-> NoReturn]
    /\ allocated = 0
    /\ installs = 0
    /\ clientWg = [i \in ClientIds |-> 0]

ConfigInit(c) ==
    /\ cfg = c
    /\ cfgSeen = c
    /\ validateErr = Unset

BuilderInit ==
    /\ args = NoArgs
    /\ payload = NoPayload

\* The clock reading of the first instant of a run: just below a multiple
\* of 1000 nanoseconds.
ClockStart == 998

TransactionInit ==
    /\ now = ClockStart
    /\ txReads = [c \in Calls |-> <<>>]
    /\ txId = [c \in Calls |-> Unset]

\* No metadata helper has been called.
NoCall == [fn |-> "none"]

\* A caller that holds context.Background() and no map yet.
MetadataInit ==
    /\ maps = <<>>
    /\ ctxs = <<>>
    /\ mdCall = NoCall

URLInit ==
    /\ urlArg = Unset
    /\ urlRet = Unset

\* No error has been classified.
NoError == [origin |-> "none"]

ErrorsInit == errCall = NoError

UtilityInit ==
    /\ TransactionInit
    /\ MetadataInit
    /\ URLInit
    /\ ErrorsInit
    /\ objects = [made |-> FALSE]
    /\ captured = [startTime |-> 0]
    /\ providerTime = 0
    /\ atCompletion = [made |-> FALSE]
    /\ record = [built |-> FALSE]
    /\ bodies = <<>>

\* The context of the call has not been cancelled.
NotCancelled == [task |-> "no", posts |-> 0]

\* A ReveniumFal as NewReveniumFal or Initialize returns it.
ClientInit ==
    /\ callPc = [c \in Calls |-> "idle"]
    /\ callKind = [c \in Calls |-> "none"]
    /\ provOut = [c \in Calls |-> "pending"]
    /\ result = [c \in Calls |-> NoResult]
    /\ cancelled = [c \in Calls |-> FALSE]
    /\ cancelAt = [c \in Calls |-> NotCancelled]
    /\ wg = 0
    /\ taskPc = [c \in Calls |-> "none"]
    /\ taskUrl = [c \in Calls |-> "none"]
    /\ marshalOk = [c \in Calls |-> TRUE]
    /\ attempt = [c \in Calls |-> 0]
    /\ backoff = [c \in Calls |-> 0]
    /\ slept = [c \in Calls |-> <<>>]
    /\ reqs = [c \in Calls |-> 0]
    /\ posts = [c \in Calls |-> 0]
    /\ sent = [c \in Calls |-> <<>>]
    /\ lastOut = [c \in Calls |-> -1]
    /\ lastErr = [c \in Calls |-> NilErr]
    /\ sendErr = [c \in Calls |-> Unset]
    /\ panicked = [c \in Calls |-> FALSE]
    /\ wgDone = [c \in Calls |-> 0]
    /\ crashed = FALSE
    /\ flushPc = "idle"
    /\ flushOp = "none"
    /\ flushAt = [c \in Calls |-> "no"]

Init ==
    /\ ClientInit
    /\ GlobalInit(EmptyEnv)
    /\ ConfigInit(ZeroConfig)
    /\ BuilderInit
    /\ UtilityInit

\* ------------------------------------------------------------ orchestrator
\* GenerateImage / GenerateVideo up to the provider call: metadata and start
\* time are read and the synchronous provider call is in flight.
GenerateStart(c, kinds) ==
    /\ ~crashed
    /\ UNCHANGED <<cancelled, cancelAt>>
    /\ callPc[c] = "idle"
    /\ \E k \in kinds : callKind' = [callKind EXCEPT ![c] = k]
    /\ callPc' = [callPc EXCEPT ![c] = "provider"]
    /\ UNCHANGED <<provOut, result, wg, taskPc, panicked, wgDone, crashed>>
    /\ UNCHANGED deliveryVars
    /\ UNCHANGED flushVars

\* A provider failure handled after the dispatch instead of before it: the
\* error is returned, but the counter is incremented and a task is launched.
ProviderFailDispatches(c) ==
    /\ ~crashed
    /\ UNCHANGED <<cancelled, cancelAt>>
    /\ callPc[c] = "provider"
    /\ \E e \in ProviderErrors :
          /\ provOut' = [provOut EXCEPT ![c] = e]
          /\ result' = [result EXCEPT ![c] = [resp |-> "nil", err |-> e]]
    /\ callPc' = [callPc EXCEPT ![c] = "returned"]
    /\ wg' = wg + 1
    /\ taskPc' = [taskPc EXCEPT ![c] = "pending"]
    /\ UNCHANGED <<callKind, panicked, wgDone, crashed>>
    /\ UNCHANGED deliveryVars
    /\ UNCHANGED flushVars

\* A provider failure after which the provider is called again instead of
\* the error being returned.
ProviderFailRetries(c) ==
    /\ ~crashed
    /\ UNCHANGED <<cancelled, cancelAt>>
    /\ callPc[c] = "provider"
    /\ provOut[c] = "pending"
    /\ \E e \in ProviderErrors : provOut' = [provOut EXCEPT ![c] = e]
    /\ UNCHANGED <<callPc, callKind, result, wg, taskPc, panicked, wgDone>>
    /\ UNCHANGED crashed
    /\ UNCHANGED deliveryVars
    /\ UNCHANGED flushVars

\* The provider call fails: `if err != nil { return nil, err }`.
ProviderFail(c) ==
    /\ ~crashed
    /\ UNCHANGED <<cancelled, cancelAt>>
    /\ callPc[c] = "provider"
    /\ \E e \in ProviderErrors :
          /\ provOut' = [provOut EXCEPT ![c] = e]
          /\ result' = [result EXCEPT ![c] = [resp |-> "nil", err |-> e]]
    /\ callPc' = [callPc EXCEPT ![c] = "returned"]
    /\ UNCHANGED <<callKind, wg, taskPc, panicked, wgDone, crashed>>
    /\ UNCHANGED deliveryVars
    /\ UNCHANGED flushVars

\* The caller cancels the context it passed to GenerateImage /
\* GenerateVideo, at any moment after the call has started.
CancelContext(c) ==
    /\ ~crashed
    /\ callPc[c] # "idle"
    /\ ~cancelled[c]
    /\ cancelled' = [cancelled EXCEPT ![c] = TRUE]
    /\ cancelAt' = [cancelAt EXCEPT
                       ![c] = [task |-> taskPc[c], posts |-> posts[c]]]
    /\ UNCHANGED <<callPc, callKind, provOut, result>>
    /\ UNCHANGED <<wg, taskPc, panicked, wgDone, crashed>>
    /\ UNCHANGED deliveryVars
    /\ UNCHANGED flushVars

\* A dispatch that launches the goroutine without wg.Add(1).
ProviderOkNoAdd(c) ==
    /\ ~crashed
    /\ ~cancelled[c]
    /\ UNCHANGED <<cancelled, cancelAt>>
    /\ callPc[c] = "provider"
    /\ provOut' = [provOut EXCEPT ![c] = "ok"]
    /\ taskPc' = [taskPc EXCEPT ![c] = "pending"]
    /\ callPc' = [callPc EXCEPT ![c] = "dispatched"]
    /\ UNCHANGED <<callKind, result, wg, panicked, wgDone, crashed>>
    /\ UNCHANGED deliveryVars
    /\ UNCHANGED flushVars

\* The provider call succeeds, which it can only do under a context that
\* has not been cancelled: duration is computed, wg.Add(1) is called and
\* the goroutine is launched.
ProviderOk(c) ==
    /\ ~crashed
    /\ ~cancelled[c]
    /\ UNCHANGED <<cancelled, cancelAt>>
    /\ callPc[c] = "provider"
    /\ provOut' = [provOut EXCEPT ![c] = "ok"]
    /\ wg' = wg + 1
    /\ taskPc' = [taskPc EXCEPT ![c] = "pending"]
    /\ callPc' = [callPc EXCEPT ![c] = "dispatched"]
    /\ UNCHANGED <<callKind, result, panicked, wgDone, crashed>>
    /\ UNCHANGED deliveryVars
    /\ UNCHANGED flushVars

\* A return that first waits for the call's metering task to finish.
GenerateReturnAwaitsTask(c) ==
    /\ ~crashed
    /\ UNCHANGED <<cancelled, cancelAt>>
    /\ callPc[c] = "dispatched"
    /\ taskPc[c] = "done"
    /\ result' = [result EXCEPT ![c] = [resp |-> "resp", err |-> "nil"]]
    /\ callPc' = [callPc EXCEPT ![c] = "returned"]
    /\ UNCHANGED <<callKind, provOut, wg, taskPc, panicked, wgDone, crashed>>
    /\ UNCHANGED deliveryVars
    /\ UNCHANGED flushVars

\* A return that hands a metering error to the caller when the task has
\* already failed by the time the call returns.
GenerateReturnReportsMetering(c) ==
    /\ ~crashed
    /\ UNCHANGED <<cancelled, cancelAt>>
    /\ callPc[c] = "dispatched"
    /\ result' = [result EXCEPT ![c] =
                     IF taskPc[c] = "done" /\ sendErr[c] \notin {NilErr, Unset}
                     THEN [resp |-> "nil", err |-> ErrKind(sendErr[c])]
                     ELSE [resp |-> "resp", err |-> "nil"]]
    /\ callPc' = [callPc EXCEPT ![c] = "returned"]
    /\ UNCHANGED <<callKind, provOut, wg, taskPc, panicked, wgDone, crashed>>
    /\ UNCHANGED deliveryVars
    /\ UNCHANGED flushVars

\* `return resp, nil`
GenerateReturn(c) ==
    /\ ~crashed
    /\ UNCHANGED <<cancelled, cancelAt>>
    /\ callPc[c] = "dispatched"
    /\ result' = [result EXCEPT ![c] = [resp |-> "resp", err |-> "nil"]]
    /\ callPc' = [callPc EXCEPT ![c] = "returned"]
    /\ UNCHANGED <<callKind, provOut, wg, taskPc, panicked, wgDone, crashed>>
    /\ UNCHANGED deliveryVars
    /\ UNCHANGED flushVars

\* ---------------------------------------------------- background goroutine
\* An end of the goroutine without wg.Done().
FinishTaskNoDone(c, err) ==
    /\ sendErr' = [sendErr EXCEPT ![c] = err]
    /\ taskPc' = [taskPc EXCEPT ![c] = "done"]
    /\ UNCHANGED <<wg, wgDone>>

\* End of the goroutine: sendMetering has returned err, sendImageMetering /
\* sendVideoMetering logs it and returns, the deferred wg.Done() runs.
FinishTask(c, err) ==
    /\ sendErr' = [sendErr EXCEPT ![c] = err]
    /\ taskPc' = [taskPc EXCEPT ![c] = "done"]
    /\ wg' = wg - 1
    /\ wgDone' = [wgDone EXCEPT ![c] = @ + 1]

\* Body of the sendMetering loop after sendMeteringRequest returned err in
\* the iteration whose loop variable is a.
AfterAttempt(c, a, err) ==
    IF err = NilErr
    THEN /\ FinishTask(c, NilErr)
         /\ attempt' = [attempt EXCEPT ![c] = a]
         /\ UNCHANGED lastErr
    ELSE /\ lastErr' = [lastErr EXCEPT ![c] = err]
         /\ IF IsValidationError(err)
            THEN /\ FinishTask(c, err)
                 /\ attempt' = [attempt EXCEPT ![c] = a]
            ELSE /\ attempt' = [attempt EXCEPT ![c] = a + 1]
                 /\ IF a + 1 < maxRetries
                    THEN /\ taskPc' = [taskPc EXCEPT ![c] = "sleep"]
                         /\ UNCHANGED <<sendErr, wg, wgDone>>
                    ELSE FinishTask(c, NewMeteringError(err))

\* The Config the client was made with.
clientConfig ==
    [ReveniumAPIKey |-> "hak_test_key",
     ReveniumBaseURL |-> "https://api.revenium.ai"]

\* A URL made of the base URL only.
MeteringURLBaseOnly(path) == <<clientConfig.ReveniumBaseURL>>

\* fmt.Sprintf("%s/meter/v2/ai/...", mc.config.ReveniumBaseURL): the base
\* URL followed by the path.
MeteringURL(path) == <<clientConfig.ReveniumBaseURL, path>>

\* The context of the call c as the caller passed it.
CallerContext(c) == [kind |-> "caller", call |-> c]

\* A metering request made under the context of its call.
RequestContextOfCaller(c) == CallerContext(c)

\* context.Background(), the context of every metering request.
RequestContext(c) == [kind |-> "background", call |-> 0]

\* The request sendMeteringRequest hands to the HTTP client for the record
\* of call c: context, method, URL, headers and the record that was
\* marshalled.
NewRequest(c, path) ==
    [ctx |-> RequestContext(c),
     method |-> "POST",
     url |-> MeteringURL(path),
     header |-> [k \in {"Content-Type", "x-api-key", "User-Agent"} |->
                    CASE k = "Content-Type" ->
                             "application/json; charset=utf-8"
                      [] k = "x-api-key" -> clientConfig.ReveniumAPIKey
                      [] k = "User-Agent" ->
                             "revenium-middleware-fal-go/1.0"],
     payload |-> [call |-> c, OperationType |-> callKind[c]]]

\* sendMeteringRequest is called in iteration a: the record is marshalled
\* and, if that works (ok), the POST is handed to the pooled HTTP client;
\* otherwise the request has failed already and the loop goes on.
SendRequest(c, a, ok) ==
    /\ reqs' = [reqs EXCEPT ![c] = @ + 1]
    /\ IF ok
       THEN /\ posts' = [posts EXCEPT ![c] = @ + 1]
            /\ sent' = [sent EXCEPT
                           ![c] = Append(@, NewRequest(c, taskUrl'[c]))]
            /\ taskPc' = [taskPc EXCEPT ![c] = "posting"]
            /\ attempt' = [attempt EXCEPT ![c] = a]
            /\ UNCHANGED <<lastErr, sendErr, wg, wgDone>>
       ELSE /\ AfterAttempt(c, a, MarshalError)
            /\ UNCHANGED <<posts, sent>>

\* The scheduler starts the goroutine: `defer r.wg.Done()` is registered and
\* sendImageMetering / sendVideoMetering is entered (its recover is deferred).
TaskStart(c) ==
    /\ ~crashed
    /\ taskPc[c] = "pending"
    /\ taskPc' = [taskPc EXCEPT ![c] = "build"]
    /\ UNCHANGED callVars
    /\ UNCHANGED deliveryVars
    /\ UNCHANGED flushVars
    /\ UNCHANGED <<wg, panicked, wgDone, crashed>>

\* The record is built (it can be serialized or not), SendImageMetering /
\* SendVideoMetering computes the URL, sendMetering initialises its locals
\* and makes its first, undelayed request.
TaskBuild(c) ==
    /\ ~crashed
    /\ taskPc[c] = "build"
    /\ taskUrl' = [taskUrl EXCEPT ![c] = MeteringPath(callKind[c])]
    /\ backoff' = [backoff EXCEPT ![c] = initialBackoff]
    /\ \E ok \in BOOLEAN :
          /\ marshalOk' = [marshalOk EXCEPT ![c] = ok]
          /\ SendRequest(c, 0, ok)
    /\ UNCHANGED callVars
    /\ UNCHANGED flushVars
    /\ UNCHANGED <<slept, lastOut>>
    /\ UNCHANGED <<panicked, crashed>>

\* The HTTP client gives up a request whose context is done.
RequestAborted(c) ==
    /\ sent[c][Len(sent[c])].ctx = CallerContext(c)
    /\ cancelled[c]

\* The HTTP exchange ends (response, or transport failure, the only end of
\* an aborted request) and the loop of sendMetering decides: return, or go
\* round again.
TaskResponse(c, answers) ==
    /\ ~crashed
    /\ taskPc[c] = "posting"
    /\ \E o \in IF RequestAborted(c) THEN {TransportFailure} ELSE answers :
          /\ lastOut' = [lastOut EXCEPT ![c] = o]
          /\ AfterAttempt(c, attempt[c], RequestError(o))
    /\ UNCHANGED callVars
    /\ UNCHANGED flushVars
    /\ UNCHANGED <<taskUrl, marshalOk, backoff, slept, reqs, posts, sent>>
    /\ UNCHANGED <<panicked, crashed>>

\* `time.Sleep(backoff); backoff *= 2` at the top of a retry iteration ends
\* and the iteration makes its request.
TaskWake(c) ==
    /\ ~crashed
    /\ taskPc[c] = "sleep"
    /\ slept' = [slept EXCEPT ![c] = Append(@, backoff[c])]
    /\ backoff' = [backoff EXCEPT ![c] = NextBackoff(@)]
    /\ UNCHANGED <<taskUrl, marshalOk, lastOut>>
    /\ SendRequest(c, attempt[c], marshalOk[c])
    /\ UNCHANGED callVars
    /\ UNCHANGED flushVars
    /\ UNCHANGED <<panicked, crashed>>

\* A panic while building the record or delivering it without the recover of
\* sendImageMetering: the deferred wg.Done() still runs while the stack
\* unwinds, then the runtime terminates the process.
TaskPanicUnrecovered(c) ==
    /\ ~crashed
    /\ taskPc[c] \in {"build", "posting"}
    /\ panicked' = [panicked EXCEPT ![c] = TRUE]
    /\ wg' = wg - 1
    /\ wgDone' = [wgDone EXCEPT ![c] = @ + 1]
    /\ crashed' = TRUE
    /\ UNCHANGED taskPc
    /\ UNCHANGED callVars
    /\ UNCHANGED deliveryVars
    /\ UNCHANGED flushVars

\* A panic while building the record or delivering it: the deferred recover
\* of sendImageMetering / sendVideoMetering logs it, the function returns
\* normally and the goroutine's deferred wg.Done() runs.
TaskPanic(c) ==
    /\ ~crashed
    /\ taskPc[c] \in {"build", "posting"}
    /\ panicked' = [panicked EXCEPT ![c] = TRUE]
    /\ taskPc' = [taskPc EXCEPT ![c] = "done"]
    /\ wg' = wg - 1
    /\ wgDone' = [wgDone EXCEPT ![c] = @ + 1]
    /\ UNCHANGED crashed
    /\ UNCHANGED callVars
    /\ UNCHANGED deliveryVars
    /\ UNCHANGED flushVars

\* ---------------------------------------------------------- Flush / Close
\* Flush (directly, or as the first statement of Close) is called and starts
\* r.wg.Wait(); ops are the entry points the caller chooses from.
FlushCall(ops) ==
    /\ ~crashed
    /\ flushPc \in {"idle", "returned"}
    /\ \E op \in ops : flushOp' = op
    /\ flushPc' = "waiting"
    /\ flushAt' = [c \in Calls |->
                     IF callPc[c] \in {"dispatched", "returned"}
                     THEN callPc[c]
                     ELSE "no"]
    /\ UNCHANGED callVars
    /\ UNCHANGED deliveryVars
    /\ UNCHANGED <<wg, taskPc, panicked, wgDone, crashed>>

\* A Flush that returns without waiting for the counter to reach zero.
FlushReturnNoWait ==
    /\ ~crashed
    /\ flushPc = "waiting"
    /\ flushPc' = "returned"
    /\ UNCHANGED <<flushOp, flushAt>>
    /\ UNCHANGED callVars
    /\ UNCHANGED deliveryVars
    /\ UNCHANGED <<wg, taskPc, panicked, wgDone, crashed>>

\* r.wg.Wait() returns once the counter is zero; Close then takes and
\* releases r.mu and returns nil.
FlushReturn ==
    /\ ~crashed
    /\ flushPc = "waiting"
    /\ wg = 0
    /\ flushPc' = "returned"
    /\ UNCHANGED <<flushOp, flushAt>>
    /\ UNCHANGED callVars
    /\ UNCHANGED deliveryVars
    /\ UNCHANGED <<wg, taskPc, panicked, wgDone, crashed>>

\* The steps of the orchestrator leave the package-level state, the Config
\* under construction and the payload builders' arguments alone.
otherVars == <<globalVars, configVars, builderVars, utilityVars>>

Next ==
    \/ \E c \in Calls :
          \/ GenerateStart(c, {KindOf(c)}) /\ UNCHANGED otherVars
          \/ ProviderFail(c) /\ UNCHANGED otherVars
          \/ ProviderOk(c) /\ UNCHANGED otherVars
          \/ GenerateReturn(c) /\ UNCHANGED otherVars
          \/ TaskStart(c) /\ UNCHANGED otherVars
          \/ TaskBuild(c) /\ UNCHANGED otherVars
          \/ TaskResponse(c, ClassOutcomes) /\ UNCHANGED otherVars
          \/ TaskWake(c) /\ UNCHANGED otherVars
          \/ TaskPanic(c) /\ UNCHANGED otherVars
    \/ FlushCall({"Close"}) /\ UNCHANGED otherVars
    \/ FlushReturn /\ UNCHANGED otherVars

Spec == Init /\ [][Next]_vars

\* One generation call and its delivery, against every status of Statuses.
NextDelivery ==
    \/ GenerateStart(1, Kinds) /\ UNCHANGED otherVars
    \/ ProviderFail(1) /\ UNCHANGED otherVars
    \/ ProviderOk(1) /\ UNCHANGED otherVars
    \/ GenerateReturn(1) /\ UNCHANGED otherVars
    \/ TaskStart(1) /\ UNCHANGED otherVars
    \/ TaskBuild(1) /\ UNCHANGED otherVars
    \/ TaskResponse(1, Outcomes) /\ UNCHANGED otherVars
    \/ TaskWake(1) /\ UNCHANGED otherVars
    \/ TaskPanic(1) /\ UNCHANGED otherVars
    \/ FlushCall({"Flush", "Close"}) /\ UNCHANGED otherVars
    \/ FlushReturn /\ UNCHANGED otherVars
    \/ CancelContext(1) /\ UNCHANGED otherVars

SpecDelivery == Init /\ [][NextDelivery]_vars

\* What the runtime guarantees of a dispatched task and of a waiting Flush:
\* a runnable goroutine is scheduled, a request ends with a response or
\* with the transport failure of meteringHTTPClient's 10 s Timeout,
\* time.Sleep returns, and wg.Wait returns once the counter is zero.
\* Nothing obliges a caller to start a call or to call Flush, a task to
\* panic or a context to be cancelled.
DrainFairness ==
    /\ WF_vars(TaskStart(1) /\ UNCHANGED otherVars)
    /\ WF_vars(TaskBuild(1) /\ UNCHANGED otherVars)
    /\ WF_vars(TaskResponse(1, Outcomes) /\ UNCHANGED otherVars)
    /\ WF_vars(TaskWake(1) /\ UNCHANGED otherVars)
    /\ WF_vars(FlushReturn /\ UNCHANGED otherVars)

SpecDrain == SpecDelivery /\ DrainFairness

\* ---------------------------------------------------- package-level state
\* The option lists Initialize is called with: none (everything from the
\* environment), two complete valid ones, and one whose Revenium key has
\* the wrong format.
InitOptions ==
    { <<>>,
      <<WithFalAPIKey(<<"f">>), WithReveniumAPIKey(hakPrefix \o <<"1">>),
        WithReveniumOrgID(<<"o", "1">>)>>,
      <<WithFalAPIKey(<<"g">>), WithReveniumAPIKey(hakPrefix \o <<"2">>),
        WithReveniumOrgID(<<"o", "2">>)>>,
      <<WithFalAPIKey(<<"f">>),
        WithReveniumAPIKey(<<"k", "e", "y", "_", "1">>)>> }

\* The environments the process runs in: nothing set, or both keys set.
GlobalEnvironments ==
    { EmptyEnv,
      [FAL_API_KEY |-> <<"f">>,
       REVENIUM_METERING_API_KEY |-> hakPrefix \o <<"1">>,
       REVENIUM_ORGANIZATION_ID |-> EmptyString] }

\* Threads inside Initialize (between the call and the return).
InInitialize == {q \in Procs : gPc[q] \in {"lock", "check", "build"}}

\* defer globalMu.Unlock()
Unlock(p) == globalMu' = IF globalMu = p THEN 0 ELSE globalMu

\* return v.  The record of an Initialize return also notes the options of
\* the call and whether the call set globalClient.
GlobalReturn(p, v) ==
    /\ gRet' = [gRet EXCEPT ![p] = v]
    /\ gPc' = [gPc EXCEPT ![p] = "idle"]
    /\ gOpts' = [gOpts EXCEPT ![p] = <<>>]
    /\ gCfg' = [gCfg EXCEPT ![p] = ZeroConfig]

\* A thread calls Initialize(opts...) and reaches globalMu.Lock().
InitializeCall(p, opts) ==
    /\ gPc[p] = "idle"
    /\ allocated + Cardinality(InInitialize) < MaxClients
    /\ gPc' = [gPc EXCEPT ![p] = "lock"]
    /\ gOpts' = [gOpts EXCEPT ![p] = opts]
    /\ gRet' = [gRet EXCEPT ![p] = NoReturn]
    /\ UNCHANGED <<env, initialized, globalClient, globalMu, gCfg, allocated,
                   installs, clientWg>>

\* A Lock that does not wait for the holder.
InitializeLockOpen(p) ==
    /\ gPc[p] = "lock"
    /\ globalMu' = p
    /\ gPc' = [gPc EXCEPT ![p] = "check"]
    /\ UNCHANGED <<env, initialized, globalClient, gOpts, gCfg, gRet,
                   allocated, installs, clientWg>>

\* globalMu.Lock() returns.
InitializeLock(p) ==
    /\ gPc[p] = "lock"
    /\ globalMu = 0
    /\ globalMu' = p
    /\ gPc' = [gPc EXCEPT ![p] = "check"]
    /\ UNCHANGED <<env, initialized, globalClient, gOpts, gCfg, gRet,
                   allocated, installs, clientWg>>

\* if initialized { return nil }; otherwise the options are applied to a
\* fresh Config and the environment fills what they left empty.
InitializeCheck(p) ==
    /\ gPc[p] = "check"
    /\ IF initialized
       THEN /\ GlobalReturn(p, [op |-> "Initialize", opts |-> gOpts[p],
                                err |-> NilErr, installed |-> FALSE])
            /\ Unlock(p)
       ELSE /\ gCfg' = [gCfg EXCEPT
                           ![p] = loadFromEnv(ApplyOptions(ZeroConfig,
                                                           gOpts[p]), env)]
            /\ gPc' = [gPc EXCEPT ![p] = "build"]
            /\ UNCHANGED <<globalMu, gOpts, gRet>>
    /\ UNCHANGED <<env, initialized, globalClient, allocated, installs,
                   clientWg>>

\* An Initialize that installs the client whatever Validate says.
InitializeBuildUnvalidated(p) ==
    /\ gPc[p] = "build"
    /\ allocated' = allocated + 1
    /\ globalClient' = [id |-> allocated + 1, config |-> gCfg[p]]
    /\ initialized' = TRUE
    /\ installs' = installs + 1
    /\ GlobalReturn(p, [op |-> "Initialize", opts |-> gOpts[p],
                        err |-> NilErr, installed |-> TRUE])
    /\ Unlock(p)
    /\ UNCHANGED <<env, clientWg>>

\* cfg.Validate(), NewFalClient (which validates again), NewMeteringClient,
\* then globalClient and initialized are set; the deferred Unlock runs.
InitializeBuild(p) ==
    /\ gPc[p] = "build"
    /\ IF Validate(gCfg[p]) # NilErr
       THEN /\ GlobalReturn(p, [op |-> "Initialize", opts |-> gOpts[p],
                                err |-> Validate(gCfg[p]),
                                installed |-> FALSE])
            /\ UNCHANGED <<initialized, globalClient, allocated, installs>>
       ELSE /\ allocated' = allocated + 1
            /\ globalClient' = [id |-> allocated + 1, config |-> gCfg[p]]
            /\ initialized' = TRUE
            /\ installs' = installs + 1
            /\ GlobalReturn(p, [op |-> "Initialize", opts |-> gOpts[p],
                                err |-> NilErr, installed |-> TRUE])
    /\ Unlock(p)
    /\ UNCHANGED <<env, clientWg>>

\* IsInitialized: the read happens while no writer holds globalMu.
IsInitialized(p) ==
    /\ gPc[p] = "idle"
    /\ globalMu = 0
    /\ gRet' = [gRet EXCEPT
                  ![p] = [op |-> "IsInitialized", value |-> initialized]]
    /\ UNCHANGED <<env, initialized, globalClient, globalMu, gPc, gOpts,
                   gCfg, allocated, installs, clientWg>>

\* A GetClient that reads the globals without taking the read lock.
GetClientUnlocked(p) ==
    /\ gPc[p] = "idle"
    /\ gRet' = [gRet EXCEPT
                  ![p] = IF ~initialized
                         THEN [op |-> "GetClient", client |-> NilClient,
                               err |-> NewConfigError(NilErr)]
                         ELSE [op |-> "GetClient", client |-> globalClient,
                               err |-> NilErr]]
    /\ UNCHANGED <<env, initialized, globalClient, globalMu, gPc, gOpts,
                   gCfg, allocated, installs, clientWg>>

\* GetClient: the read happens while no writer holds globalMu.
GetClient(p) ==
    /\ gPc[p] = "idle"
    /\ globalMu = 0
    /\ gRet' = [gRet EXCEPT
                  ![p] = IF ~initialized
                         THEN [op |-> "GetClient", client |-> NilClient,
                               err |-> NewConfigError(NilErr)]
                         ELSE [op |-> "GetClient", client |-> globalClient,
                               err |-> NilErr]]
    /\ UNCHANGED <<env, initialized, globalClient, globalMu, gPc, gOpts,
                   gCfg, allocated, installs, clientWg>>

RECURSIVE SumWg(_)
SumWg(ids) ==
    IF ids = {}
    THEN 0
    ELSE LET i == CHOOSE x \in ids : TRUE
         IN  clientWg[i] + SumWg(ids \ {i})

\* Metering tasks in flight, over all clients allocated so far.
TasksInFlight == SumWg(ClientIds)

\* A successful generation call on the client the thread got from
\* GetClient: wg.Add(1) and the launch of its metering task.
GlobalDispatch(p) ==
    /\ gPc[p] = "idle"
    /\ gRet[p].op = "GetClient"
    /\ gRet[p].client # NilClient
    /\ TasksInFlight < MaxInFlight
    /\ clientWg' = [clientWg EXCEPT ![gRet[p].client.id] = @ + 1]
    /\ UNCHANGED <<env, initialized, globalClient, globalMu, gPc, gOpts,
                   gCfg, gRet, allocated, installs>>

\* A metering task of client i ends: the deferred wg.Done().
GlobalTaskDone(i) ==
    /\ clientWg[i] > 0
    /\ clientWg' = [clientWg EXCEPT ![i] = @ - 1]
    /\ UNCHANGED <<env, initialized, globalClient, globalMu, gPc, gOpts,
                   gCfg, gRet, allocated, installs>>

\* A thread calls Reset and reaches globalMu.Lock().
ResetCall(p) ==
    /\ gPc[p] = "idle"
    /\ gPc' = [gPc EXCEPT ![p] = "resetLock"]
    /\ gRet' = [gRet EXCEPT ![p] = NoReturn]
    /\ UNCHANGED <<env, initialized, globalClient, globalMu, gOpts, gCfg,
                   allocated, installs, clientWg>>

ResetLock(p) ==
    /\ gPc[p] = "resetLock"
    /\ globalMu = 0
    /\ globalMu' = p
    /\ gPc' = [gPc EXCEPT ![p] = "reset"]
    /\ UNCHANGED <<env, initialized, globalClient, gOpts, gCfg, gRet,
                   allocated, installs, clientWg>>

\* The body of Reset: globalClient.Close() returns once the client's wg
\* is zero, then globalClient and initialized are cleared.
ResetBody(p) ==
    /\ gPc[p] = "reset"
    /\ globalClient # NilClient => clientWg[globalClient.id] = 0
    /\ globalClient' = NilClient
    /\ initialized' = FALSE
    /\ installs' = 0
    /\ GlobalReturn(p, [op |-> "Reset"])
    /\ Unlock(p)
    /\ UNCHANGED <<env, allocated, clientWg>>

InitGlobal ==
    /\ ClientInit
    /\ \E e \in GlobalEnvironments : GlobalInit(e)
    /\ ConfigInit(ZeroConfig)
    /\ BuilderInit
    /\ UtilityInit

NextGlobal ==
    \/ \E p \in Procs :
          \/ \E opts \in InitOptions :
                InitializeCall(p, opts)
                /\ UNCHANGED exceptGlobal
          \/ InitializeLock(p)
             /\ UNCHANGED exceptGlobal
          \/ InitializeCheck(p)
             /\ UNCHANGED exceptGlobal
          \/ InitializeBuild(p)
             /\ UNCHANGED exceptGlobal
          \/ IsInitialized(p)
             /\ UNCHANGED exceptGlobal
          \/ GetClient(p)
             /\ UNCHANGED exceptGlobal
          \/ GlobalDispatch(p)
             /\ UNCHANGED exceptGlobal
          \/ ResetCall(p)
             /\ UNCHANGED exceptGlobal
          \/ ResetLock(p)
             /\ UNCHANGED exceptGlobal
          \/ ResetBody(p)
             /\ UNCHANGED exceptGlobal
    \/ \E i \in ClientIds :
          GlobalTaskDone(i)
          /\ UNCHANGED exceptGlobal

SpecGlobal == InitGlobal /\ [][NextGlobal]_vars

\* ------------------------------------- Initialize and Reset by statement
\* The critical sections of Initialize and Reset one assignment at a time:
\* what the globals hold while the writer still has globalMu.

\* Initialize from cfg.Validate() to `globalClient = &ReveniumFal{...}`.
InitializeInstall(p) ==
    /\ gPc[p] = "build"
    /\ IF Validate(gCfg[p]) # NilErr
       THEN /\ GlobalReturn(p, [op |-> "Initialize", opts |-> gOpts[p],
                                err |-> Validate(gCfg[p]),
                                installed |-> FALSE])
            /\ Unlock(p)
            /\ UNCHANGED <<globalClient, allocated>>
       ELSE /\ allocated' = allocated + 1
            /\ globalClient' = [id |-> allocated + 1, config |-> gCfg[p]]
            /\ gPc' = [gPc EXCEPT ![p] = "flag"]
            /\ UNCHANGED <<globalMu, gOpts, gCfg, gRet>>
    /\ UNCHANGED <<env, initialized, installs, clientWg>>

\* initialized = true; return nil; the deferred Unlock runs.
InitializeFlag(p) ==
    /\ gPc[p] = "flag"
    /\ initialized' = TRUE
    /\ installs' = installs + 1
    /\ GlobalReturn(p, [op |-> "Initialize", opts |-> gOpts[p],
                        err |-> NilErr, installed |-> TRUE])
    /\ Unlock(p)
    /\ UNCHANGED <<env, globalClient, allocated, clientWg>>

\* A Close that returns while tasks of the client are still running.
ResetCloseNoWait(p) ==
    /\ gPc[p] = "reset"
    /\ IF globalClient = NilClient
       THEN /\ initialized' = FALSE
            /\ installs' = 0
            /\ GlobalReturn(p, [op |-> "Reset"])
            /\ Unlock(p)
       ELSE /\ gPc' = [gPc EXCEPT ![p] = "resetClear"]
            /\ UNCHANGED <<initialized, installs, globalMu, gOpts, gCfg,
                           gRet>>
    /\ UNCHANGED <<env, globalClient, allocated, clientWg>>

\* if globalClient != nil { globalClient.Close() ...: Close returns once
\* the client's wg is zero.  With no client Reset goes on to
\* `initialized = false` and returns.
ResetClose(p) ==
    /\ gPc[p] = "reset"
    /\ IF globalClient = NilClient
       THEN /\ initialized' = FALSE
            /\ installs' = 0
            /\ GlobalReturn(p, [op |-> "Reset"])
            /\ Unlock(p)
       ELSE /\ clientWg[globalClient.id] = 0
            /\ gPc' = [gPc EXCEPT ![p] = "resetClear"]
            /\ UNCHANGED <<initialized, installs, globalMu, gOpts, gCfg,
                           gRet>>
    /\ UNCHANGED <<env, globalClient, allocated, clientWg>>

\* ... globalClient = nil }
ResetClear(p) ==
    /\ gPc[p] = "resetClear"
    /\ globalClient' = NilClient
    /\ gPc' = [gPc EXCEPT ![p] = "resetFlag"]
    /\ UNCHANGED <<env, initialized, globalMu, gOpts, gCfg, gRet, allocated,
                   installs, clientWg>>

\* initialized = false; the deferred Unlock runs and Reset returns.
ResetFlag(p) ==
    /\ gPc[p] = "resetFlag"
    /\ initialized' = FALSE
    /\ installs' = 0
    /\ GlobalReturn(p, [op |-> "Reset"])
    /\ Unlock(p)
    /\ UNCHANGED <<env, globalClient, allocated, clientWg>>

NextGlobalSteps ==
    \/ \E p \in Procs :
          \/ \E opts \in InitOptions :
                InitializeCall(p, opts)
                /\ UNCHANGED exceptGlobal
          \/ InitializeLock(p)
             /\ UNCHANGED exceptGlobal
          \/ InitializeCheck(p)
             /\ UNCHANGED exceptGlobal
          \/ InitializeInstall(p)
             /\ UNCHANGED exceptGlobal
          \/ InitializeFlag(p)
             /\ UNCHANGED exceptGlobal
          \/ IsInitialized(p)
             /\ UNCHANGED exceptGlobal
          \/ GetClient(p)
             /\ UNCHANGED exceptGlobal
          \/ GlobalDispatch(p)
             /\ UNCHANGED exceptGlobal
          \/ ResetCall(p)
             /\ UNCHANGED exceptGlobal
          \/ ResetLock(p)
             /\ UNCHANGED exceptGlobal
          \/ ResetClose(p)
             /\ UNCHANGED exceptGlobal
          \/ ResetClear(p)
             /\ UNCHANGED exceptGlobal
          \/ ResetFlag(p)
             /\ UNCHANGED exceptGlobal
    \/ \E i \in ClientIds :
          GlobalTaskDone(i)
          /\ UNCHANGED exceptGlobal

SpecGlobalSteps == InitGlobal /\ [][NextGlobalSteps]_vars

\* ------------------------------------------------- a Config and Validate
\* A caller builds a Config (a struct literal, options applied to it, the
\* environment loaded into it) and validates it.
ConfigOptions ==
    {WithFalAPIKey(k) : k \in FalKeys}
        \cup {WithReveniumAPIKey(k) : k \in RevKeys}
        \cup {WithReveniumOrgID(o) : o \in OrgIds}

ConfigOption(opt) ==
    /\ cfg' = ApplyOption(cfg, opt)
    /\ validateErr' = Unset
    /\ cfgSeen' = cfg'

ConfigLoadFromEnv ==
    /\ cfg' = loadFromEnv(cfg, env)
    /\ validateErr' = Unset
    /\ cfgSeen' = cfg'

\* err := c.Validate(): Validate assigns to no field of c.
ConfigValidate ==
    /\ cfgSeen' = cfg
    /\ validateErr' = Validate(cfg)
    /\ UNCHANGED cfg

InitConfig ==
    /\ ClientInit
    /\ \E e \in Environments : GlobalInit(e)
    /\ \E c \in Configs : ConfigInit(c)
    /\ BuilderInit
    /\ UtilityInit

NextConfig ==
    \/ \E opt \in ConfigOptions :
          ConfigOption(opt)
          /\ UNCHANGED exceptConfig
    \/ ConfigLoadFromEnv
       /\ UNCHANGED exceptConfig
    \/ ConfigValidate
       /\ UNCHANGED exceptConfig

SpecConfig == InitConfig /\ [][NextConfig]_vars

\* ------------------------------------------------------------ model names
\* const falPrefix = "fal-ai/"
falPrefix == <<"f", "a", "l", "-", "a", "i", "/">>

\* The prefix segment "fal_ai/" of the pricing lookup's naming convention.
litellmPrefix == <<"f", "a", "l", "_", "a", "i", "/">>

\* "flux/dev" and "flux-pro/v1.1"
fluxDev == <<"f", "l", "u", "x", "/", "d", "e", "v">>

fluxPro == <<"f", "l", "u", "x", "-", "p", "r", "o", "/", "v", "1", ".", "1">>

\* Model names callers pass: up to two leading pieces (a prefix segment of
\* either spelling, or "fal-ai" without its slash) before an endpoint path,
\* which may be empty or hold "fal-ai/" in its middle.
ModelNamePieces ==
    {EmptyString, falPrefix, litellmPrefix, <<"f", "a", "l", "-", "a", "i">>}

ModelNameTails ==
    {EmptyString, fluxDev, fluxPro, <<"x", "/">> \o falPrefix \o <<"y">>}

ModelNames ==
    {a \o b \o t : a \in ModelNamePieces, b \in ModelNamePieces,
                    t \in ModelNameTails}

\* A normalization that prepends the prefix without looking at the name.
normalizeModelNameAlways(model) == falPrefix \o model

normalizeModelName(model) ==
    IF HasPrefix(model, falPrefix)
    THEN model
    ELSE falPrefix \o model

\* normalizeModelName(model) is called on a caller's model name.
Normalize(model) ==
    /\ args = NoArgs
    /\ args' = [fn |-> "normalizeModelName", model |-> model, calls |-> 1,
                first |-> normalizeModelName(model)]
    /\ payload' = [OperationType |-> "none",
                   Model |-> normalizeModelName(model)]

\* normalizeModelName is called again on what it returned.
NormalizeAgain ==
    /\ args.fn = "normalizeModelName"
    /\ args.calls = 1
    /\ args' = [args EXCEPT !.calls = 2]
    /\ payload' = [payload EXCEPT !.Model = normalizeModelName(@)]

\* ---------------------------------------------------------------- numbers
\* A float64 is a finite value counted in tenths, an infinity or NaN.
Finite(v) == [kind |-> "finite", v |-> v]

PosInf == [kind |-> "inf", v |-> 1]

NegInf == [kind |-> "inf", v |-> -1]

NaN == [kind |-> "nan", v |-> 0]

\* x > 0 on float64: false for NaN.
Positive(x) == x.kind # "nan" /\ x.v > 0

\* A pointer field (*int, *float64) is <<>> when nil and <<v>> when set.
NilPtr == <<>>

PtrTo(v) == <<v>>

Whitespace == {" ", "\n", "\t"}

Digits == {"0", "1", "2", "3", "4", "5", "6", "7", "8", "9"}

DigitValue(c) ==
    CHOOSE n \in 0..9 :
        <<"0", "1", "2", "3", "4", "5", "6", "7", "8", "9">>[n + 1] = c

\* strings.TrimSpace
RECURSIVE TrimLeft(_)
TrimLeft(s) ==
    IF s # <<>> /\ Head(s) \in Whitespace THEN TrimLeft(Tail(s)) ELSE s

RECURSIVE TrimRight(_)
TrimRight(s) ==
    IF s # <<>> /\ s[Len(s)] \in Whitespace
    THEN TrimRight(SubSeq(s, 1, Len(s) - 1))
    ELSE s

TrimSpace(s) == TrimRight(TrimLeft(s))

ToLower(c) ==
    CASE c = "I" -> "i"
      [] c = "N" -> "n"
      [] c = "F" -> "f"
      [] c = "A" -> "a"
      [] c = "T" -> "t"
      [] c = "Y" -> "y"
      [] OTHER -> c

IsDigits(s) == \A i \in 1..Len(s) : s[i] \in Digits

RECURSIVE DigitsValue(_)
DigitsValue(s) ==
    IF s = <<>>
    THEN 0
    ELSE DigitsValue(SubSeq(s, 1, Len(s) - 1)) * 10 + DigitValue(s[Len(s)])

\* The unsigned decimal forms strconv.ParseFloat accepts: digits with at
\* most one point and at least one digit ("5", "7.5", "5.", ".5").  The
\* value is in tenths; the strings of the model have at most one digit after
\* the point, and none is in exponent or hexadecimal form.
ParseDecimal(s) ==
    LET points == {i \in 1..Len(s) : s[i] = "."}
        at == IF points = {} THEN Len(s) + 1 ELSE CHOOSE i \in points : TRUE
        whole == SubSeq(s, 1, at - 1)
        frac == SubSeq(s, at + 1, Len(s))
    IN  IF \/ Cardinality(points) > 1
           \/ ~IsDigits(whole)
           \/ ~IsDigits(frac)
           \/ Len(whole) + Len(frac) = 0
        THEN [err |-> TRUE, val |-> 0]
        ELSE [err |-> FALSE,
              val |-> DigitsValue(whole) * 10
                      + (IF frac = <<>> THEN 0 ELSE DigitValue(frac[1]))]

\* strconv.ParseFloat(s, 64): an optional sign, then "inf" or "infinity" in
\* any case or a decimal; "nan" in any case takes no sign.
ParseFloat(s) ==
    LET signed == s # <<>> /\ Head(s) \in {"+", "-"}
        body == IF signed THEN Tail(s) ELSE s
        sign == IF signed /\ Head(s) = "-" THEN -1 ELSE 1
        lower == [i \in 1..Len(body) |-> ToLower(body[i])]
    IN  IF lower \in {<<"i", "n", "f">>,
                      <<"i", "n", "f", "i", "n", "i", "t", "y">>}
        THEN [err |-> FALSE, val |-> [kind |-> "inf", v |-> sign]]
        ELSE IF ~signed /\ lower = <<"n", "a", "n">>
             THEN [err |-> FALSE, val |-> NaN]
             ELSE IF ParseDecimal(body).err
                  THEN [err |-> TRUE, val |-> Finite(0)]
                  ELSE [err |-> FALSE,
                        val |-> Finite(sign * ParseDecimal(body).val)]

\* ------------------------------------------------------- payload builders
\* Identifiers, URLs and prompts are opaque texts, written as TLA+ strings;
\* only the model name and the requested duration are read character by
\* character.

\* A map[string]interface{}: nil or a function from its keys to values,
\* each value a pair of its dynamic type and what it holds.
NilMap == [nil |-> TRUE, kv |-> <<>>]

MakeMap(f) == [nil |-> FALSE, kv |-> f]

StringValue(v) == <<"string", v>>

IntValue(v) == <<"int", v>>

FloatValue(v) == <<"float64", v>>

MapValue(v) == <<"map", v>>

HasTyped(md, key, type) ==
    /\ ~md.nil
    /\ key \in DOMAIN md.kv
    /\ md.kv[key][1] = type

\* if v, ok := metadata[key].(string); ok { field = v }
MetaString(md, key) ==
    IF HasTyped(md, key, "string") THEN md.kv[key][2] ELSE ""

\* if v, ok := metadata[key].(int); ok { field = &v }
MetaIntPtr(md, key) ==
    IF HasTyped(md, key, "int") THEN PtrTo(md.kv[key][2]) ELSE NilPtr

\* A float field that also converts an int value.
MetaFloatPtrOrInt(md, key) ==
    IF HasTyped(md, key, "float64")
    THEN PtrTo(md.kv[key][2])
    ELSE IF HasTyped(md, key, "int")
         THEN PtrTo(Finite(10 * md.kv[key][2]))
         ELSE NilPtr

\* if v, ok := metadata[key].(float64); ok { field = &v }
MetaFloatPtr(md, key) ==
    IF HasTyped(md, key, "float64") THEN PtrTo(md.kv[key][2]) ELSE NilPtr

\* if v, ok := metadata[key].(map[string]interface{}); ok { field = v }
MetaMap(md, key) ==
    IF HasTyped(md, key, "map") THEN md.kv[key][2] ELSE NilMap

MaxPromptLength == 50000

\* A prompt is its text, its length in bytes (what len(prompt) gives) and
\* the bytes each of its characters takes in UTF-8; the empty prompt is "".
\* MakePrompt gives a prompt of single-byte characters.
MakePrompt(text, len) == [text |-> text, len |-> len, width |-> 1]

\* A prompt of chars characters of width bytes each.
MakeWidePrompt(text, chars, width) ==
    [text |-> text, len |-> chars * width, width |-> width]

EmptyPrompt == MakePrompt("", 0)

\* The serialized inputMessages: "" or the JSON array holding one message
\* of role "user" whose content is the first `len` bytes of the prompt,
\* followed by "...[TRUNCATED]" when marked.
NoInputMessages == [role |-> "", text |-> "", len |-> 0, marked |-> FALSE]

formatPromptAsInputMessages(prompt) ==
    IF prompt = EmptyPrompt
    THEN <<NoInputMessages, FALSE>>
    ELSE IF prompt.len > MaxPromptLength
         THEN <<[role |-> "user", text |-> prompt.text,
                 len |-> MaxPromptLength, marked |-> TRUE], TRUE>>
         ELSE <<[role |-> "user", text |-> prompt.text, len |-> prompt.len,
                 marked |-> FALSE], FALSE>>

\* fmt.Sprintf("%d-%d", time.Now().UnixNano(), time.Now().UnixNano()%1000)
\* for the two clock readings t1 and t2.
generateTransactionID(t1, t2) == <<t1, "-", t2 % 1000>>

GetMiddlewareSource == "revenium-middleware-fal-go"

\* A struct literal that takes the model name as the caller gave it.
BasePayloadRawModel(kind, model, duration, requestTime, t1, t2) ==
    [StopReason |-> "END",
     CostType |-> "AI",
     OperationType |-> kind,
     Model |-> model,
     Provider |-> "fal",
     ModelSource |-> "FAL",
     TransactionID |-> generateTransactionID(t1, t2),
     RequestTime |-> requestTime,
     ResponseTime |-> requestTime + duration,
     RequestDuration |-> duration \div 1000000,
     MiddlewareSource |-> GetMiddlewareSource]

\* The fields every record starts with (the struct literal).
BasePayload(kind, model, duration, requestTime, t1, t2) ==
    [StopReason |-> "END",
     CostType |-> "AI",
     OperationType |-> kind,
     Model |-> normalizeModelName(model),
     Provider |-> "fal",
     ModelSource |-> "FAL",
     TransactionID |-> generateTransactionID(t1, t2),
     RequestTime |-> requestTime,
     ResponseTime |-> requestTime + duration,
     RequestDuration |-> duration \div 1000000,
     MiddlewareSource |-> GetMiddlewareSource]

\* The fields copied from the usage metadata.
MetadataFields(md) ==
    [OrganizationID |-> MetaString(md, "organizationId"),
     ProductID |-> MetaString(md, "productId"),
     TaskType |-> MetaString(md, "taskType"),
     Agent |-> MetaString(md, "agent"),
     SubscriptionID |-> MetaString(md, "subscriptionId"),
     TraceID |-> MetaString(md, "traceId"),
     ParentTransactionID |-> MetaString(md, "parentTransactionId"),
     TraceType |-> MetaString(md, "traceType"),
     TraceName |-> MetaString(md, "traceName"),
     Environment |-> MetaString(md, "environment"),
     Region |-> MetaString(md, "region"),
     RetryNumber |-> MetaIntPtr(md, "retryNumber"),
     CredentialAlias |-> MetaString(md, "credentialAlias"),
     Subscriber |-> MetaMap(md, "subscriber"),
     TaskID |-> MetaString(md, "taskId"),
     VideoJobID |-> MetaString(md, "videoJobId"),
     AudioJobID |-> MetaString(md, "audioJobId"),
     ResponseQualityScore |-> MetaFloatPtr(md, "responseQualityScore"),
     TotalCost |-> NilPtr]

\* Prompt capture fields that do not look at the capture flag.
PromptFieldsAlways(capturePrompts, prompt, output) ==
    IF prompt # EmptyPrompt
    THEN [InputMessages |-> formatPromptAsInputMessages(prompt)[1],
          PromptsTruncated |-> formatPromptAsInputMessages(prompt)[2],
          OutputResponse |-> output]
    ELSE [InputMessages |-> NoInputMessages,
          PromptsTruncated |-> FALSE,
          OutputResponse |-> <<>>]

\* The prompt capture fields.  OutputResponse is a text in pieces: <<>> for
\* "", <<url>> for a video's URL, <<"[", url, ..., "]">> for the JSON array
\* of an image record's URLs.
PromptFields(capturePrompts, prompt, output) ==
    IF capturePrompts /\ prompt # EmptyPrompt
    THEN [InputMessages |-> formatPromptAsInputMessages(prompt)[1],
          PromptsTruncated |-> formatPromptAsInputMessages(prompt)[2],
          OutputResponse |-> output]
    ELSE [InputMessages |-> NoInputMessages,
          PromptsTruncated |-> FALSE,
          OutputResponse |-> <<>>]

\* A nil *FalImageResponse / *FalVideoResponse.
NilResponse == [nil |-> TRUE]

ImageResponse(images) == [nil |-> FALSE, Images |-> images]

VideoResponse(dur, w, h) ==
    [nil |-> FALSE, Video |-> [Duration |-> dur, Width |-> w, Height |-> h]]

\* A nil map[string]interface{} of attributes.
NoAttributes == [k \in {} |-> 0]

\* json.Marshal(outputURLs)
MarshalURLs(urls) == <<"[">> \o urls \o <<"]">>

\* ------------------------------------------------ buildImageMeteringPayload
\* Attributes taken from the last image of the response.
ImageAttributesOfLast(imageResp) ==
    IF ~imageResp.nil /\ Len(imageResp.Images) > 0
    THEN [width |-> imageResp.Images[Len(imageResp.Images)].Width,
          height |-> imageResp.Images[Len(imageResp.Images)].Height]
    ELSE NoAttributes

ImageAttributes(imageResp) ==
    IF ~imageResp.nil /\ Len(imageResp.Images) > 0
    THEN [width |-> imageResp.Images[1].Width,
          height |-> imageResp.Images[1].Height]
    ELSE NoAttributes

\* imageCount := len(imageResp.Images), pointed to by both count fields.
ImageCounts(imageResp) ==
    IF imageResp.nil
    THEN [ActualImageCount |-> NilPtr, RequestedImageCount |-> NilPtr]
    ELSE [ActualImageCount |-> PtrTo(Len(imageResp.Images)),
          RequestedImageCount |-> PtrTo(Len(imageResp.Images))]

buildImageMeteringPayload(model, imageResp, metadata, duration, requestTime, capturePrompts, prompt, outputURLs, t1, t2) ==
    BasePayload("IMAGE", model, duration, requestTime, t1, t2)
        @@ ImageCounts(imageResp)
        @@ [DurationSeconds |-> NilPtr, RequestedDurationSeconds |-> NilPtr,
            Attributes |-> ImageAttributes(imageResp)]
        @@ MetadataFields(metadata)
        @@ PromptFields(capturePrompts, prompt,
                        IF Len(outputURLs) > 0
                        THEN MarshalURLs(outputURLs)
                        ELSE <<>>)

\* ------------------------------------------------ buildVideoMeteringPayload
\* A parse of the requested duration that does not trim it first.
reqDurSecondsUntrimmed(requestedDuration) ==
    IF requestedDuration # EmptyString
          /\ ~ParseFloat(requestedDuration).err
    THEN ParseFloat(requestedDuration).val
    ELSE Finite(0)

\* var reqDurSeconds float64, set from the requested duration when it is
\* not empty and parses after trimming.
reqDurSeconds(requestedDuration) ==
    IF requestedDuration # EmptyString
          /\ ~ParseFloat(TrimSpace(requestedDuration)).err
    THEN ParseFloat(TrimSpace(requestedDuration)).val
    ELSE Finite(0)

\* Duration fields without the fallbacks: each from its own source only.
VideoDurationsNoFallback(reqDur, videoResp) ==
    [RequestedDurationSeconds |->
         IF Positive(reqDur) THEN PtrTo(reqDur) ELSE NilPtr,
     DurationSeconds |->
         IF ~videoResp.nil /\ Positive(videoResp.Video.Duration)
         THEN PtrTo(videoResp.Video.Duration)
         ELSE NilPtr]

\* RequestedDurationSeconds and DurationSeconds for the parsed requested
\* duration reqDur and the response.
VideoDurations(reqDur, videoResp) ==
    LET requested == IF Positive(reqDur) THEN PtrTo(reqDur) ELSE NilPtr
    IN  IF ~videoResp.nil /\ Positive(videoResp.Video.Duration)
        THEN [DurationSeconds |-> PtrTo(videoResp.Video.Duration),
              RequestedDurationSeconds |->
                  IF requested = NilPtr
                  THEN PtrTo(videoResp.Video.Duration)
                  ELSE requested]
        ELSE IF Positive(reqDur)
             THEN [DurationSeconds |-> PtrTo(reqDur),
                   RequestedDurationSeconds |-> requested]
             ELSE [DurationSeconds |-> NilPtr,
                   RequestedDurationSeconds |-> requested]

\* attrs: width and height of the video, each only when positive.
VideoAttributes(videoResp) ==
    IF videoResp.nil
    THEN NoAttributes
    ELSE [k \in {x \in {"width", "height"} :
                    \/ x = "width" /\ videoResp.Video.Width > 0
                    \/ x = "height" /\ videoResp.Video.Height > 0} |->
              IF k = "width"
              THEN videoResp.Video.Width
              ELSE videoResp.Video.Height]

buildVideoMeteringPayload(model, videoResp, metadata, duration, requestTime, requestedDuration, capturePrompts, prompt, outputURL, t1, t2) ==
    BasePayload("VIDEO", model, duration, requestTime, t1, t2)
        @@ [ActualImageCount |-> NilPtr, RequestedImageCount |-> NilPtr]
        @@ VideoDurations(reqDurSeconds(requestedDuration), videoResp)
        @@ [Attributes |-> VideoAttributes(videoResp)]
        @@ MetadataFields(metadata)
        @@ PromptFields(capturePrompts, prompt,
                        IF outputURL # "" THEN <<outputURL>> ELSE <<>>)

\* ------------------------------------------------- inputs of the builders
ImageSizes ==
    {[Width |-> 512, Height |-> 512], [Width |-> 1024, Height |-> 768]}

ImageLists == UNION {[1..n -> ImageSizes] : n \in 0..MaxImages}

ImageResponses == {NilResponse} \cup {ImageResponse(l) : l \in ImageLists}

\* Video durations a response carries, in tenths of a second (0 when the
\* provider omits the field), and its frame sizes (0 when omitted).
VideoResponses ==
    {NilResponse}
        \cup {VideoResponse(Finite(d), dim[1], dim[2]) :
                 d \in {0, 72, 100, -10},
                 dim \in {<<0, 0>>, <<1280, 720>>, <<1280, 0>>}}

\* Requested durations: "", "5", "10", " 5 ", "10\n", "7.5", "0", "0.0",
\* "-5", "+5", "5.", ".5", " ", "abc", "5s", "1 0", "+Inf", "NaN".
RequestedDurations ==
    { EmptyString,
      <<"5">>,
      <<"1", "0">>,
      <<" ", "5", " ">>,
      <<"1", "0", "\n">>,
      <<"7", ".", "5">>,
      <<"0">>,
      <<"0", ".", "0">>,
      <<"-", "5">>,
      <<"+", "5">>,
      <<"5", ".">>,
      <<".", "5">>,
      <<" ">>,
      <<"a", "b", "c">>,
      <<"5", "s">>,
      <<"1", " ", "0">>,
      <<"+", "I", "n", "f">>,
      <<"N", "a", "N">> }

\* Usage metadata: none, empty, well-typed values, ill-typed values.
Metadatas ==
    { NilMap,
      MakeMap([k \in {} |-> 0]),
      MakeMap([organizationId |-> StringValue("org-1"),
               retryNumber |-> IntValue(2),
               responseQualityScore |-> FloatValue(Finite(9)),
               subscriber |-> MapValue(MakeMap([id |-> StringValue("s-1")]))]),
      MakeMap([organizationId |-> IntValue(7),
               retryNumber |-> StringValue("2"),
               subscriber |-> StringValue("s-1")]) }

\* Elapsed times of the provider call and request instants, in nanoseconds.
Durations == {0, 999999, 2500000}

RequestTimes == {0, 1000000000}

\* The two clock readings generateTransactionID makes, the second not
\* before the first.
ClockReadings == {<<1000, 1000>>, <<1000, 2001>>}

Prompts ==
    {EmptyPrompt, MakePrompt("a cat", 5),
     MakePrompt("a long prompt", MaxPromptLength + 1)}

\* Model names the builders are called with: empty, bare, with either
\* prefix segment, with both, and a nested path.
BuilderModels ==
    { EmptyString, fluxDev, falPrefix \o fluxDev, litellmPrefix \o fluxDev,
      litellmPrefix \o falPrefix \o fluxDev, falPrefix \o fluxPro }

\* One call of buildImageMeteringPayload.
BuildImage ==
    /\ args = NoArgs
    /\ \E model \in BuilderModels, imageResp \in ImageResponses,
          metadata \in Metadatas, duration \in Durations,
          requestTime \in RequestTimes, capturePrompts \in BOOLEAN,
          prompt \in Prompts, outputURLs \in {<<>>, <<"u1", "u2">>},
          clock \in ClockReadings :
          /\ args' = [fn |-> "buildImageMeteringPayload", model |-> model,
                      imageResp |-> imageResp, metadata |-> metadata,
                      duration |-> duration, requestTime |-> requestTime,
                      capturePrompts |-> capturePrompts, prompt |-> prompt,
                      outputURLs |-> outputURLs]
          /\ payload' = buildImageMeteringPayload(
                            model, imageResp, metadata, duration, requestTime,
                            capturePrompts, prompt, outputURLs,
                            clock[1], clock[2])

\* One call of buildVideoMeteringPayload.
BuildVideo ==
    /\ args = NoArgs
    /\ \E model \in {EmptyString, fluxDev, falPrefix \o fluxDev},
          videoResp \in VideoResponses,
          metadata \in {NilMap, MakeMap([taskType |-> StringValue("t")])},
          duration \in {0, 2500000}, requestTime \in RequestTimes,
          requestedDuration \in RequestedDurations,
          capturePrompts \in BOOLEAN,
          prompt \in {EmptyPrompt, MakePrompt("a cat", 5)},
          outputURL \in {"", "u1"}, clock \in {<<1000, 2001>>} :
          /\ args' = [fn |-> "buildVideoMeteringPayload", model |-> model,
                      videoResp |-> videoResp, metadata |-> metadata,
                      duration |-> duration, requestTime |-> requestTime,
                      requestedDuration |-> requestedDuration,
                      capturePrompts |-> capturePrompts, prompt |-> prompt,
                      outputURL |-> outputURL]
          /\ payload' = buildVideoMeteringPayload(
                            model, videoResp, metadata, duration, requestTime,
                            requestedDuration, capturePrompts, prompt,
                            outputURL, clock[1], clock[2])

\* Prompts around the truncation limit: of single-byte characters, and of
\* two- and three-byte characters (accented letters, CJK).
BoundaryPrompts ==
    { MakePrompt("ascii", MaxPromptLength - 1),
      MakePrompt("ascii", MaxPromptLength),
      MakePrompt("ascii", MaxPromptLength + 1),
      MakePrompt("ascii", 2 * MaxPromptLength),
      MakeWidePrompt("accented", MaxPromptLength \div 2, 2),
      MakeWidePrompt("accented", MaxPromptLength \div 2 + 1, 2),
      MakeWidePrompt("accented", MaxPromptLength, 2),
      MakeWidePrompt("cjk", 20000, 3),
      MakeWidePrompt("cjk", MaxPromptLength, 3) }

\* One call of buildImageMeteringPayload with each of the BoundaryPrompts.
BuildImageWithPrompt ==
    /\ args = NoArgs
    /\ \E capturePrompts \in BOOLEAN, prompt \in BoundaryPrompts,
          outputURLs \in {<<>>, <<"u1">>, <<"u1", "u2">>} :
          /\ args' = [fn |-> "buildImageMeteringPayload", model |-> fluxDev,
                      imageResp |-> ImageResponse(<<>>),
                      metadata |-> NilMap, duration |-> 0,
                      requestTime |-> 0, capturePrompts |-> capturePrompts,
                      prompt |-> prompt, outputURLs |-> outputURLs]
          /\ payload' = buildImageMeteringPayload(
                            fluxDev, ImageResponse(<<>>), NilMap, 0, 0,
                            capturePrompts, prompt, outputURLs, 1000, 2001)

\* One call of buildVideoMeteringPayload with each of the BoundaryPrompts.
BuildVideoWithPrompt ==
    /\ args = NoArgs
    /\ \E capturePrompts \in BOOLEAN, prompt \in BoundaryPrompts,
          outputURL \in {"", "u1"} :
          /\ args' = [fn |-> "buildVideoMeteringPayload", model |-> fluxDev,
                      videoResp |-> NilResponse, metadata |-> NilMap,
                      duration |-> 0, requestTime |-> 0,
                      requestedDuration |-> EmptyString,
                      capturePrompts |-> capturePrompts, prompt |-> prompt,
                      outputURL |-> outputURL]
          /\ payload' = buildVideoMeteringPayload(
                            fluxDev, NilResponse, NilMap, 0, 0, EmptyString,
                            capturePrompts, prompt, outputURL, 1000, 2001)

\* The metadata keys the builders read and the Go type each is asserted to.
MetadataKeyTypes ==
    [organizationId |-> "string", productId |-> "string",
     taskType |-> "string", agent |-> "string", subscriptionId |-> "string",
     traceId |-> "string", parentTransactionId |-> "string",
     traceType |-> "string", traceName |-> "string",
     environment |-> "string", region |-> "string", retryNumber |-> "int",
     credentialAlias |-> "string", subscriber |-> "map", taskId |-> "string",
     videoJobId |-> "string", audioJobId |-> "string",
     responseQualityScore |-> "float64"]

ValueTypes == {"string", "int", "float64", "map"}

\* A value of each Go type a caller may store in the metadata.
SampleValue(type) ==
    CASE type = "string" -> StringValue("v-1")
      [] type = "int" -> IntValue(2)
      [] type = "float64" -> FloatValue(Finite(9))
      [] type = "map" -> MapValue(MakeMap([id |-> StringValue("s-1")]))

\* Entries under keys the builders do not read: a key that differs from a
\* read one in case only, a cost override, a caller's own key.
UnreadEntries ==
    [organizationID |-> StringValue("dropped"),
     totalCost |-> FloatValue(Finite(15)),
     customField |-> StringValue("dropped")]

\* Usage metadata that exercises the type assertions: one read key with a
\* value of each type, every read key with values of one type, every read
\* key well typed beside the unread entries, the unread entries alone, and
\* an integer cost override.
ProjectionMetadatas ==
    LET keys == DOMAIN MetadataKeyTypes
    IN  {MakeMap([x \in {k} |-> SampleValue(t)]) :
            k \in keys, t \in ValueTypes}
          \cup {MakeMap([x \in keys |-> SampleValue(t)]) : t \in ValueTypes}
          \cup {MakeMap([x \in keys |-> SampleValue(MetadataKeyTypes[x])]
                          @@ UnreadEntries),
                MakeMap(UnreadEntries),
                MakeMap([totalCost |-> IntValue(15)]),
                MakeMap([organizationId |-> StringValue("org-1"),
                         retryNumber |-> FloatValue(Finite(2)),
                         customField |-> StringValue("dropped")])}

\* One call of buildImageMeteringPayload for a response without images,
\* with each of the ProjectionMetadatas.
BuildImageWithMetadata ==
    /\ args = NoArgs
    /\ \E metadata \in ProjectionMetadatas :
          /\ args' = [fn |-> "buildImageMeteringPayload", model |-> fluxDev,
                      imageResp |-> ImageResponse(<<>>),
                      metadata |-> metadata, duration |-> 0,
                      requestTime |-> 0, capturePrompts |-> FALSE,
                      prompt |-> EmptyPrompt, outputURLs |-> <<>>]
          /\ payload' = buildImageMeteringPayload(
                            fluxDev, ImageResponse(<<>>), metadata, 0, 0,
                            FALSE, EmptyPrompt, <<>>, 1000, 2001)

\* One call of buildVideoMeteringPayload for a nil response, with each of
\* the ProjectionMetadatas.
BuildVideoWithMetadata ==
    /\ args = NoArgs
    /\ \E metadata \in ProjectionMetadatas :
          /\ args' = [fn |-> "buildVideoMeteringPayload", model |-> fluxDev,
                      videoResp |-> NilResponse, metadata |-> metadata,
                      duration |-> 0, requestTime |-> 0,
                      requestedDuration |-> EmptyString,
                      capturePrompts |-> FALSE, prompt |-> EmptyPrompt,
                      outputURL |-> ""]
          /\ payload' = buildVideoMeteringPayload(
                            fluxDev, NilResponse, metadata, 0, 0, EmptyString,
                            FALSE, EmptyPrompt, "", 1000, 2001)

NextBuilder ==
    \/ \E model \in ModelNames :
          Normalize(model)
          /\ UNCHANGED exceptBuilder
    \/ NormalizeAgain /\ UNCHANGED exceptBuilder
    \/ BuildImage /\ UNCHANGED exceptBuilder
    \/ BuildVideo /\ UNCHANGED exceptBuilder
    \/ BuildImageWithMetadata /\ UNCHANGED exceptBuilder
    \/ BuildVideoWithMetadata /\ UNCHANGED exceptBuilder
    \/ BuildImageWithPrompt /\ UNCHANGED exceptBuilder
    \/ BuildVideoWithPrompt /\ UNCHANGED exceptBuilder

SpecBuilder == Init /\ [][NextBuilder]_vars

\* ---------------------------------------------------------- transaction ids
\* The background tasks of the calls generate their transaction ids while
\* the clock advances: each generateTransactionID call reads the clock
\* twice and formats the two readings.

\* The clock advances by one nanosecond.
Tick ==
    /\ now < ClockStart + MaxTicks
    /\ now' = now + 1
    /\ UNCHANGED <<txReads, txId>>

\* time.Now().UnixNano(): one of the two readings of the call's task.
ReadClock(c) ==
    /\ Len(txReads[c]) < 2
    /\ txReads' = [txReads EXCEPT ![c] = Append(@, now)]
    /\ UNCHANGED <<now, txId>>

\* fmt.Sprintf over the two readings; the id goes into the call's record.
FormatTransactionID(c) ==
    /\ Len(txReads[c]) = 2
    /\ txId[c] = Unset
    /\ txId' = [txId EXCEPT
                   ![c] = generateTransactionID(txReads[c][1], txReads[c][2])]
    /\ UNCHANGED <<now, txReads>>

NextTransaction ==
    \/ Tick /\ UNCHANGED exceptTransaction
    \/ \E c \in Calls :
          \/ ReadClock(c) /\ UNCHANGED exceptTransaction
          \/ FormatTransactionID(c) /\ UNCHANGED exceptTransaction

SpecTransaction == Init /\ [][NextTransaction]_vars

\* -------------------------------------------------------- usage metadata
\* Maps are reference values: a map is its index in maps, 0 the nil map.
\* A context is its index in ctxs, 0 context.Background() and -1 the nil
\* context; a context made by context.WithValue holds its parent, its key
\* and its value.

NilMapRef == 0

Background == 0

NilContext == -1

usageMetadataKey == "revenium_usage_metadata"

\* A key of the caller's own.
callerKey == "caller_key"

\* The content of the map m refers to.
Deref(m) == IF m = NilMapRef THEN NilMap ELSE maps[m]

\* A merge in which base wins on the keys both maps hold.
MergeMetadataBaseWins(base, override) ==
    IF base.nil /\ override.nil
    THEN NilMap
    ELSE MakeMap([k \in (DOMAIN base.kv) \cup (DOMAIN override.kv) |->
                     IF k \in DOMAIN base.kv
                     THEN base.kv[k]
                     ELSE override.kv[k]])

\* The content of the map MergeMetadata returns: nil for two nil maps,
\* else base's entries overwritten by override's.
MergeMetadata(base, override) ==
    IF base.nil /\ override.nil
    THEN NilMap
    ELSE MakeMap([k \in (DOMAIN base.kv) \cup (DOMAIN override.kv) |->
                     IF k \in DOMAIN override.kv
                     THEN override.kv[k]
                     ELSE base.kv[k]])

\* context.WithValue(ctx, usageMetadataKey, metadata)
WithUsageMetadata(ctx, metadata) ==
    [parent |-> ctx, key |-> usageMetadataKey, value |-> metadata]

\* The untyped nil ctx.Value returns when no context of the chain holds
\* the key.
NoValue == [ok |-> FALSE, value |-> NilMapRef]

\* ctx.Value(key): the value of the nearest context of the chain that
\* holds the key.
RECURSIVE Value(_, _)
Value(ctx, key) ==
    IF ctx = Background
    THEN NoValue
    ELSE IF ctxs[ctx].key = key
         THEN [ok |-> TRUE, value |-> ctxs[ctx].value]
         ELSE Value(ctxs[ctx].parent, key)

\* A lookup that returns the value attached first on the chain.
RECURSIVE ValueOldest(_, _)
ValueOldest(ctx, key) ==
    IF ctx = Background
    THEN NoValue
    ELSE IF ValueOldest(ctxs[ctx].parent, key).ok
         THEN ValueOldest(ctxs[ctx].parent, key)
         ELSE IF ctxs[ctx].key = key
              THEN [ok |-> TRUE, value |-> ctxs[ctx].value]
              ELSE NoValue

GetUsageMetadataOldest(ctx) ==
    IF ctx = NilContext
    THEN NilMapRef
    ELSE IF ~ValueOldest(ctx, usageMetadataKey).ok
         THEN NilMapRef
         ELSE ValueOldest(ctx, usageMetadataKey).value

GetUsageMetadata(ctx) ==
    IF ctx = NilContext
    THEN NilMapRef
    ELSE IF ~Value(ctx, usageMetadataKey).ok
         THEN NilMapRef
         ELSE Value(ctx, usageMetadataKey).value

\* The maps a caller writes as literals.
MapLiterals ==
    { MakeMap([a |-> IntValue(1), b |-> IntValue(2)]),
      MakeMap([b |-> IntValue(3), c |-> IntValue(4)]) }

\* The caller allocates a map.
NewMap(m) ==
    /\ Len(maps) < MaxMaps
    /\ maps' = Append(maps, m)
    /\ UNCHANGED <<ctxs, mdCall>>

\* result := MergeMetadata(base, override), the two arguments being nil
\* or maps the caller holds (the same one twice included).
MergeCall(base, override) ==
    /\ Len(maps) < MaxMaps
    /\ IF base = NilMapRef /\ override = NilMapRef
       THEN /\ maps' = maps
            /\ mdCall' = [fn |-> "MergeMetadata", base |-> base,
                          override |-> override, ret |-> NilMapRef]
       ELSE /\ maps' = Append(maps, MergeMetadata(Deref(base),
                                                  Deref(override)))
            /\ mdCall' = [fn |-> "MergeMetadata", base |-> base,
                          override |-> override, ret |-> Len(maps) + 1]
    /\ UNCHANGED ctxs

\* ctx2 := WithUsageMetadata(ctx, metadata) on a non-nil context.
AttachCall(ctx, metadata) ==
    /\ Len(ctxs) < MaxContexts
    /\ ctxs' = Append(ctxs, WithUsageMetadata(ctx, metadata))
    /\ mdCall' = [fn |-> "WithUsageMetadata", ctx |-> ctx,
                  metadata |-> metadata, ret |-> Len(ctxs) + 1]
    /\ UNCHANGED maps

\* The caller derives a context holding a value under a key of its own.
CallerWithValue(ctx) ==
    /\ Len(ctxs) < MaxContexts
    /\ ctxs' = Append(ctxs, [parent |-> ctx, key |-> callerKey,
                             value |-> NilMapRef])
    /\ UNCHANGED <<maps, mdCall>>

\* metadata := GetUsageMetadata(ctx)
GetCall(ctx) ==
    /\ mdCall' = [fn |-> "GetUsageMetadata", ctx |-> ctx,
                  ret |-> GetUsageMetadata(ctx)]
    /\ UNCHANGED <<maps, ctxs>>

NextMetadata ==
    \/ \E m \in MapLiterals : NewMap(m) /\ UNCHANGED exceptMetadata
    \/ \E base, override \in 0..Len(maps) :
          MergeCall(base, override) /\ UNCHANGED exceptMetadata
    \/ \E ctx \in 0..Len(ctxs), metadata \in 0..Len(maps) :
          AttachCall(ctx, metadata) /\ UNCHANGED exceptMetadata
    \/ \E ctx \in 0..Len(ctxs) :
          CallerWithValue(ctx) /\ UNCHANGED exceptMetadata
    \/ \E ctx \in -1..Len(ctxs) :
          GetCall(ctx) /\ UNCHANGED exceptMetadata

SpecMetadata == Init /\ [][NextMetadata]_vars

\* ----------------------------------------------------------------- base URL
\* URLs are read character by character.

\* "https://api.revenium.ai"
defaultBaseURL ==
    <<"h", "t", "t", "p", "s", ":", "/", "/", "a", "p", "i", ".", "r", "e", "v", "e", "n", "i", "u", "m", ".", "a", "i">>

\* "/meter/v2" and "/meter"
meterV2Suffix == <<"/", "m", "e", "t", "e", "r", "/", "v", "2">>

meterSuffix == <<"/", "m", "e", "t", "e", "r">>

\* The last n characters of s / s without them.
LastChars(s, n) == SubSeq(s, Len(s) - n + 1, Len(s))

DropLast(s, n) == SubSeq(s, 1, Len(s) - n)

\* A normalization that cuts the legacy path before the trailing slash.
NormalizeReveniumBaseURLSlashLast(baseURL) ==
    IF baseURL = EmptyString
    THEN defaultBaseURL
    ELSE LET cut ==
                 IF Len(baseURL) >= 9
                        /\ LastChars(baseURL, 9) = meterV2Suffix
                 THEN DropLast(baseURL, 9)
                 ELSE IF Len(baseURL) >= 6
                             /\ LastChars(baseURL, 6) = meterSuffix
                      THEN DropLast(baseURL, 6)
                      ELSE baseURL
         IN  IF cut # EmptyString /\ cut[Len(cut)] = "/"
             THEN DropLast(cut, 1)
             ELSE cut

NormalizeReveniumBaseURL(baseURL) ==
    IF baseURL = EmptyString
    THEN defaultBaseURL
    ELSE LET trimmed == IF baseURL[Len(baseURL)] = "/"
                        THEN DropLast(baseURL, 1)
                        ELSE baseURL
         IN  IF Len(trimmed) >= 9 /\ LastChars(trimmed, 9) = meterV2Suffix
             THEN DropLast(trimmed, 9)
             ELSE IF Len(trimmed) >= 6 /\ LastChars(trimmed, 6) = meterSuffix
                  THEN DropLast(trimmed, 6)
                  ELSE trimmed

\* "", "https://x", "https://x/api", "https://api.revenium.ai"
URLHosts ==
    { EmptyString,
      <<"h", "t", "t", "p", "s", ":", "/", "/", "x">>,
      <<"h", "t", "t", "p", "s", ":", "/", "/", "x", "/", "a", "p", "i">>,
      defaultBaseURL }

\* "/", "/meter", "/meter/v2", "/v2", "x"
URLPieces ==
    { <<"/">>, meterSuffix, meterV2Suffix, <<"/", "v", "2">>, <<"x">> }

\* The paths made of up to n pieces.
RECURSIVE URLPaths(_)
URLPaths(n) ==
    IF n = 0
    THEN {EmptyString}
    ELSE URLPaths(n - 1)
             \cup {p \o s : p \in URLPaths(n - 1), s \in URLPieces}

BaseURLs == {h \o p : h \in URLHosts, p \in URLPaths(MaxSegments)}

\* One call of NormalizeReveniumBaseURL.
NormalizeBaseURL(baseURL) ==
    /\ urlArg = Unset
    /\ urlArg' = baseURL
    /\ urlRet' = NormalizeReveniumBaseURL(baseURL)

NextURL ==
    \E baseURL \in BaseURLs :
        NormalizeBaseURL(baseURL) /\ UNCHANGED exceptURL

SpecURL == Init /\ [][NextURL]_vars

\* ------------------------------------------------------------ error kinds
ErrorKinds == {"CONFIG", "NETWORK", "PROVIDER", "VALIDATION", "METERING"}

\* What the five predicates answer for the error e.
Classify(e) ==
    [k \in ErrorKinds |->
        CASE k = "CONFIG" -> IsConfigError(e)
          [] k = "NETWORK" -> IsNetworkError(e)
          [] k = "PROVIDER" -> IsProviderError(e)
          [] k = "VALIDATION" -> IsValidationError(e)
          [] k = "METERING" -> IsMeteringError(e)]

\* fmt.Errorf("...: %w", e) applied n times: plain errors around e.
RECURSIVE Wrap(_, _)
Wrap(e, n) == IF n = 0 THEN e ELSE <<"plain">> \o Wrap(e, n - 1)

\* Causes a classified error is built around: none, or a plain error.
PlainCauses == {NilErr, <<"plain">>}

\* The predicates are applied to an error of kind k below n plain wrappers.
ClassifyWrapped(k, n, cause) ==
    /\ errCall = NoError
    /\ LET e == Wrap(NewError(k, cause), n) IN
           errCall' = [origin |-> "wrapped", kinds |-> {k}, err |-> e,
                       is |-> Classify(e)]

\* They are applied to an error of kind k that wraps, below n plain
\* wrappers, an error of kind j.
ClassifyNested(k, n, j, cause) ==
    /\ errCall = NoError
    /\ LET e == NewError(k, Wrap(NewError(j, cause), n)) IN
           errCall' = [origin |-> "nested", kinds |-> {k, j}, err |-> e,
                       is |-> Classify(e)]

\* They are applied to what one sendMeteringRequest returned for the
\* outcome o of its HTTP exchange, as the retry decision of sendMetering
\* does, and to what sendMetering returns when that was its last attempt.
ClassifyRequestError(o, last) ==
    /\ errCall = NoError
    /\ RequestError(o) # NilErr
    /\ LET err == RequestError(o)
           e == IF last /\ ~IsValidationError(err)
                THEN NewMeteringError(err)
                ELSE err
       IN  errCall' = [origin |-> "request", outcome |-> o, last |-> last,
                       err |-> e, is |-> Classify(e)]

\* They are applied to the error of a record json.Marshal rejected.
ClassifyMarshalError ==
    /\ errCall = NoError
    /\ errCall' = [origin |-> "marshal", err |-> MarshalError,
                   is |-> Classify(MarshalError)]

NextErrors ==
    \/ \E k \in ErrorKinds, n \in 0..MaxWraps, cause \in PlainCauses :
          ClassifyWrapped(k, n, cause) /\ UNCHANGED exceptErrors
    \/ \E k, j \in ErrorKinds, n \in 0..MaxWraps, cause \in PlainCauses :
          ClassifyNested(k, n, j, cause) /\ UNCHANGED exceptErrors
    \/ \E o \in Outcomes, last \in BOOLEAN :
          ClassifyRequestError(o, last) /\ UNCHANGED exceptErrors
    \/ ClassifyMarshalError /\ UNCHANGED exceptErrors

SpecErrors == Init /\ [][NextErrors]_vars

\* ---------------------------------------------------- the call's record
\* One generation call with the objects it works on: the caller holds the
\* request, the response GenerateImage / GenerateVideo returned and the
\* metadata map of its context, and may change them once the call has
\* returned; the task holds the same response and the same map.
\* buildImageMeteringPayload / buildVideoMeteringPayload get the zero
\* values for the arguments their call sites do not pass.

\* The metadata map of the caller's context.
CallerMetadata ==
    MakeMap([organizationId |-> StringValue("org-1"),
             subscriber |-> MapValue(MakeMap([id |-> StringValue("sub-1")]))])

\* The same map after metadata["organizationId"] = "org-2" and, on the map
\* held under "subscriber", subscriber["id"] = "sub-2".
ModifiedMetadata ==
    MakeMap([organizationId |-> StringValue("org-2"),
             subscriber |-> MapValue(MakeMap([id |-> StringValue("sub-2")]))])

\* What the provider returns for a call of the kind.
ProviderResponses(kind) ==
    IF kind = "image"
    THEN {ImageResponse(<<[Width |-> 512, Height |-> 512],
                          [Width |-> 512, Height |-> 512]>>)}
    ELSE {VideoResponse(Finite(72), 1280, 720), VideoResponse(Finite(0), 0, 0)}

\* The response after the caller dropped its last image, or set the
\* duration of its video to zero.
ModifiedResponse(kind, resp) ==
    IF kind = "image"
    THEN [resp EXCEPT !.Images = SubSeq(@, 1, Len(@) - 1)]
    ELSE [resp EXCEPT !.Video.Duration = Finite(0)]

\* payload := buildImageMeteringPayload(...) / buildVideoMeteringPayload(...)
\* in sendImageMetering / sendVideoMetering, at clock reading t.
BuildPayload(kind, o, cap, t) ==
    IF kind = "image"
    THEN buildImageMeteringPayload(fluxDev, o.response, o.metadata,
                                   cap.duration, cap.startTime, FALSE,
                                   EmptyPrompt, <<>>, t, t)
    ELSE buildVideoMeteringPayload(fluxDev, o.response, o.metadata,
                                   cap.duration, cap.startTime,
                                   cap.requestedDuration, FALSE, EmptyPrompt,
                                   "", t, t)

\* The fields of the payload that point into the caller's objects:
\* `&videoResp.Video.Duration` and the map found under "subscriber".
Aliases(kind, o, cap) ==
    (IF kind = "video" /\ ~o.response.nil
           /\ Positive(o.response.Video.Duration)
     THEN {"DurationSeconds"}
              \cup (IF Positive(reqDurSeconds(cap.requestedDuration))
                    THEN {}
                    ELSE {"RequestedDurationSeconds"})
     ELSE {})
    \cup (IF HasTyped(o.metadata, "subscriber", "map")
          THEN {"Subscriber"}
          ELSE {})

\* json.Marshal(payload): every field by its value now, a pointer or a map
\* by what it points to now.
Marshal(rec, o) ==
    [f \in DOMAIN rec.payload |->
        IF f \in rec.aliases
        THEN IF f = "Subscriber"
             THEN o.metadata.kv["subscriber"][2]
             ELSE PtrTo(o.response.Video.Duration)
        ELSE rec.payload[f]]

\* GenerateImage / GenerateVideo up to the provider call, for a caller that
\* passes a request and a context with or without usage metadata.
StartWithObjects(c) ==
    /\ GenerateStart(c, Kinds)
    /\ \E withMetadata \in BOOLEAN, dur \in {EmptyString, <<"5">>} :
          objects' = [made |-> TRUE,
                      request |-> [Duration |-> IF callKind'[c] = "video"
                                                THEN dur
                                                ELSE EmptyString],
                      response |-> NilResponse,
                      metadata |-> IF withMetadata
                                   THEN CallerMetadata
                                   ELSE NilMap]
    /\ captured' = [startTime |-> now]
    /\ UNCHANGED <<providerTime, atCompletion, record, bodies>>

\* The provider call returns a response: duration := time.Since(startTime),
\* requestedDuration = request.Duration, then the dispatch.
CompleteWithResponse(c) ==
    /\ ProviderOk(c)
    /\ \E resp \in ProviderResponses(callKind[c]) :
          objects' = [objects EXCEPT !.response = resp]
    /\ captured' = [startTime |-> captured.startTime,
                    duration |-> now - captured.startTime,
                    requestedDuration |-> objects.request.Duration]
    /\ atCompletion' = objects'
    /\ UNCHANGED <<providerTime, record, bodies>>

\* The body of the request the step made, if it made one.
Marshalled(c, rec) ==
    IF posts'[c] > posts[c]
    THEN bodies' = Append(bodies, Marshal(rec, objects))
    ELSE UNCHANGED bodies

\* A task that measures the elapsed time itself when it builds the record.
BuildMeasuresLate(c) ==
    /\ TaskBuild(c)
    /\ LET late == [captured EXCEPT !.duration = now - captured.startTime]
       IN  record' = [built |-> TRUE,
                      payload |-> BuildPayload(callKind[c], objects, late, now),
                      aliases |-> Aliases(callKind[c], objects, captured)]
    /\ Marshalled(c, record')
    /\ UNCHANGED <<objects, captured, providerTime, atCompletion>>

\* A task that writes the duration it falls back to into the response.
BuildWritesResponse(c) ==
    /\ TaskBuild(c)
    /\ record' = [built |-> TRUE,
                  payload |-> BuildPayload(callKind[c], objects, captured, now),
                  aliases |-> Aliases(callKind[c], objects, captured)]
    /\ Marshalled(c, record')
    /\ objects' = IF callKind[c] = "video"
                  THEN [objects EXCEPT !.response.Video.Duration =
                           reqDurSeconds(captured.requestedDuration)]
                  ELSE objects
    /\ UNCHANGED <<captured, providerTime, atCompletion>>

\* The task builds the record from the response and the map it was given
\* and makes its first request.
BuildWithObjects(c) ==
    /\ TaskBuild(c)
    /\ record' = [built |-> TRUE,
                  payload |-> BuildPayload(callKind[c], objects, captured, now),
                  aliases |-> Aliases(callKind[c], objects, captured)]
    /\ Marshalled(c, record')
    /\ UNCHANGED <<objects, captured, providerTime, atCompletion>>

\* The task wakes from its backoff and makes its next request.
WakeWithObjects(c) ==
    /\ TaskWake(c)
    /\ Marshalled(c, record)
    /\ UNCHANGED <<objects, captured, providerTime, atCompletion, record>>

\* The caller changes the response it was returned.
ModifyResponse(c) ==
    /\ callPc[c] = "returned"
    /\ provOut[c] = "ok"
    /\ objects.response = atCompletion.response
    /\ objects' = [objects EXCEPT
                      !.response = ModifiedResponse(callKind[c], @)]
    /\ UNCHANGED <<captured, providerTime, atCompletion, record, bodies>>
    /\ UNCHANGED clientVars

\* The caller changes the metadata map it attached to the context.
ModifyMetadata(c) ==
    /\ callPc[c] = "returned"
    /\ provOut[c] = "ok"
    /\ objects.metadata = CallerMetadata
    /\ objects' = [objects EXCEPT !.metadata = ModifiedMetadata]
    /\ UNCHANGED <<captured, providerTime, atCompletion, record, bodies>>
    /\ UNCHANGED clientVars

\* The clock advances while the call and its task run.
TickDuringCall(c) ==
    /\ Tick
    /\ providerTime' = IF callPc[c] = "provider"
                       THEN providerTime + 1
                       ELSE providerTime
    /\ UNCHANGED <<objects, captured, atCompletion, record, bodies>>

NextRecord ==
    \/ StartWithObjects(1) /\ UNCHANGED exceptRecord
    \/ ProviderFail(1) /\ UNCHANGED otherVars
    \/ CompleteWithResponse(1) /\ UNCHANGED exceptRecord
    \/ GenerateReturn(1) /\ UNCHANGED otherVars
    \/ TaskStart(1) /\ UNCHANGED otherVars
    \/ BuildWithObjects(1) /\ UNCHANGED exceptRecord
    \/ TaskResponse(1, ClassOutcomes) /\ UNCHANGED otherVars
    \/ WakeWithObjects(1) /\ UNCHANGED exceptRecord
    \/ TaskPanic(1) /\ UNCHANGED otherVars
    \/ ModifyResponse(1) /\ UNCHANGED exceptRecord
    \/ ModifyMetadata(1) /\ UNCHANGED exceptRecord
    \/ TickDuringCall(1) /\ UNCHANGED exceptClock

SpecRecord == Init /\ [][NextRecord]_vars

\* ================================================================= claims
Is2xx(o) == o >= 200 /\ o <= 299

Is4xx(o) == o >= 400 /\ o <= 499

\* An HTTP exchange that failed otherwise than by a 4xx answer.
IsRetryable(o) == o = TransportFailure \/ (o > 0 /\ ~Is2xx(o) /\ ~Is4xx(o))

OkResult == [resp |-> "resp", err |-> "nil"]

\* C1: once the provider call has succeeded and the task is dispatched, the
\* return to the caller is enabled whatever the task is doing (not started,
\* building, sending, sleeping in backoff, done): it never waits for delivery.
C1_ReturnNeverWaits ==
    \A c \in Calls : callPc[c] = "dispatched" => ENABLED GenerateReturn(c)

\* C1 witness: a caller has its response while its task is in the middle of
\* a retried POST (the second attempt of its delivery).
C1_ReturnedWhileInFlight ==
    \E c \in Calls :
        /\ callPc[c] = "returned"
        /\ result[c] = OkResult
        /\ taskPc[c] = "posting"
        /\ posts[c] = 2

\* C2: the value a generation call returned is a function of the provider
\* outcome alone: the response and a nil error when the provider succeeded,
\* nil and the provider's error when it failed, whatever the metering task
\* did, does or will do; a metering error is never returned.
C2_ResultFromProviderOnly ==
    \A c \in Calls :
        callPc[c] = "returned" =>
            /\ result[c] = IF provOut[c] = "ok"
                           THEN OkResult
                           ELSE [resp |-> "nil", err |-> provOut[c]]
            /\ provOut[c] \in {"ok"} \cup ProviderErrors

\* C2 witness: two successful calls got the same result although one's
\* delivery succeeded and the other's exhausted its retries.
C2_SameResultDifferentMetering ==
    \E c, d \in Calls :
        /\ callPc[c] = "returned" /\ callPc[d] = "returned"
        /\ provOut[c] = "ok" /\ provOut[d] = "ok"
        /\ sendErr[c] = NilErr
        /\ ErrKind(sendErr[d]) = "METERING"
        /\ result[c] = result[d]

\* C3: a call whose provider call failed has returned that error, has no
\* background task, made no metering request, and did not touch the
\* in-flight counter, which counts the successful calls' unfinished tasks only.
C3_NoMeteringOnProviderFailure ==
    /\ \A c \in Calls :
          provOut[c] \in ProviderErrors =>
              /\ callPc[c] = "returned"
              /\ result[c] = [resp |-> "nil", err |-> provOut[c]]
              /\ taskPc[c] = "none"
              /\ reqs[c] = 0 /\ posts[c] = 0
              /\ wgDone[c] = 0
    /\ wg = Cardinality({d \in Calls : provOut[d] = "ok" /\ wgDone[d] = 0})

\* C3 witness: a failed call next to a successful one whose record was posted.
C3_FailedCallBesidePostedOne ==
    \E c, d \in Calls :
        /\ provOut[c] \in ProviderErrors
        /\ callPc[c] = "returned"
        /\ taskPc[d] = "done"
        /\ posts[d] > 0

\* Flush has returned and every generation call started so far had returned
\* before that Flush was called.
FlushedAfterAllReturned ==
    /\ flushPc = "returned"
    /\ ReturnedBeforeFlush = {c \in Calls : callPc[c] # "idle"}

C5_FlushWaitsForDispatched ==
    flushPc = "returned" =>
        \A c \in DispatchedBeforeFlush : taskPc[c] = "done"

\* C5 witness: Close returned after two tasks dispatched before it was
\* called, one of which went through both backoff sleeps.
C5_CloseWaitedForTasks ==
    /\ flushPc = "returned"
    /\ flushOp = "Close"
    /\ \E c, d \in DispatchedBeforeFlush :
          /\ c # d
          /\ flushAt[c] = "dispatched"
          /\ Len(slept[c]) = 2

\* C6: a panic in a task never terminates the process and never reaches the
\* caller; the panicked task is finished with its counter slot released
\* exactly once, so the counter is never negative and always equals the
\* number of unfinished tasks (a Flush can return once they are done).
C6_PanicContained ==
    /\ ~crashed
    /\ wg >= 0
    /\ wg = Cardinality(InFlight)
    /\ \A c \in Calls :
          /\ wgDone[c] = (IF taskPc[c] = "done" THEN 1 ELSE 0)
          /\ panicked[c] =>
                /\ taskPc[c] = "done"
                /\ callPc[c] = "returned" => result[c] = OkResult

\* C6 witness: a task panicked and a Flush called after its dispatch returned.
C6_FlushedAfterPanic ==
    \E c \in Calls :
        /\ panicked[c]
        /\ c \in DispatchedBeforeFlush
        /\ flushPc = "returned"

\* C7: a delivery whose exchanges all failed otherwise than by a 4xx made
\* exactly 3 attempts (3 POSTs, 2 sleeps) and returned a Metering error
\* wrapping the error of the third attempt; before the third attempt such a
\* delivery is never finished.
C7_ThreeAttemptsThenMeteringError ==
    \A c \in Calls :
        (lastOut[c] >= 0 /\ IsRetryable(lastOut[c]) /\ ~panicked[c]) =>
            IF taskPc[c] = "done"
            THEN /\ reqs[c] = 3 /\ posts[c] = 3
                 /\ ErrKind(sendErr[c]) = "METERING"
                 /\ Tail(sendErr[c]) = lastErr[c]
                 /\ lastErr[c] = (IF lastOut[c] = TransportFailure
                                  THEN <<"NETWORK", "transport">>
                                  ELSE <<"METERING", "status">>)
            ELSE posts[c] < 3 \/ taskPc[c] = "posting"

\* C7 witness: a delivery ended after three failures, the last a transport
\* failure.
C7_ExhaustedOnTransportFailure ==
    \E c \in Calls :
        /\ taskPc[c] = "done"
        /\ lastOut[c] = TransportFailure
        /\ posts[c] = 3
        /\ sendErr[c] = <<"METERING", "NETWORK", "transport">>

\* C8: a 4xx answer at any attempt ends the delivery at once with a
\* Validation error: the task is finished, no sleep or request follows, and
\* the number of POSTs is the number of the attempt that got the 4xx.
C8_NoRetryOn4xx ==
    \A c \in Calls :
        (lastOut[c] >= 0 /\ Is4xx(lastOut[c])) =>
            /\ taskPc[c] = "done"
            /\ sendErr[c] = <<"VALIDATION">>
            /\ posts[c] = attempt[c] + 1
            /\ reqs[c] = posts[c]
            /\ Len(slept[c]) = attempt[c]
            /\ (attempt[c] = 0 => posts[c] = 1)

\* C8 witness: a 400 answered the second attempt and ended the delivery.
C8_Rejected400OnSecondAttempt ==
    \E c \in Calls :
        /\ taskPc[c] = "done"
        /\ lastOut[c] = 400
        /\ posts[c] = 2

C10_BackoffSchedule ==
    \A c \in Calls :
        /\ slept[c] \in {<<>>, <<100>>, <<100, 200>>}
        /\ Len(slept[c]) = (IF reqs[c] = 0 THEN 0 ELSE reqs[c] - 1)
        /\ taskPc[c] = "sleep" => backoff[c] = 100 * (2 ^ (attempt[c] - 1))

\* C10 witness: a delivery of three attempts slept 100 ms and then 200 ms.
C10_SleptTwice ==
    \E c \in Calls :
        /\ taskPc[c] = "done"
        /\ reqs[c] = 3
        /\ slept[c] = <<100, 200>>

\* ---------------------------------------------------------------- C11, C12
\* The Config an Initialize call with these options arrives at.
EffectiveConfig(opts) == loadFromEnv(ApplyOptions(ZeroConfig, opts), env)

ValidOptionsA == <<WithFalAPIKey(<<"f">>),
                   WithReveniumAPIKey(hakPrefix \o <<"1">>),
                   WithReveniumOrgID(<<"o", "1">>)>>

ValidOptionsB == <<WithFalAPIKey(<<"g">>),
                   WithReveniumAPIKey(hakPrefix \o <<"2">>),
                   WithReveniumOrgID(<<"o", "2">>)>>

C12_InvalidConfigLeavesUninitialized ==
    /\ [](\A p \in Procs :
            /\ (gRet[p].op = "Initialize" /\ gRet[p].err # NilErr)
                   => /\ IsConfigError(gRet[p].err)
                      /\ ~gRet[p].installed
                      /\ Validate(EffectiveConfig(gRet[p].opts)) # NilErr
            /\ gRet[p].op = "GetClient"
                   => \/ /\ gRet[p].client = NilClient
                         /\ IsConfigError(gRet[p].err)
                      \/ /\ gRet[p].client # NilClient
                         /\ gRet[p].err = NilErr)
    /\ [][\A p \in Procs :
             /\ (gPc[p] = "build" /\ gPc'[p] = "idle")
                    => IF Validate(gCfg[p]) # NilErr
                       THEN /\ IsConfigError(gRet'[p].err)
                            /\ ~initialized'
                            /\ globalClient' = NilClient
                       ELSE /\ gRet'[p].err = NilErr
                            /\ initialized'
                            /\ globalClient'.config = gCfg[p]
             /\ (gRet'[p] # gRet[p] /\ gRet'[p].op = "GetClient")
                    => IF initialized
                       THEN /\ gRet'[p].client = globalClient
                            /\ gRet'[p].client # NilClient
                            /\ gRet'[p].err = NilErr
                       ELSE /\ gRet'[p].client = NilClient
                            /\ IsConfigError(gRet'[p].err)]_vars

\* C12 witness: one thread's Initialize failed with a Configuration error
\* (nothing was installed); afterwards another thread's
\* Initialize with valid options installed the first client of the run.
C12_ValidInitializeAfterFailure ==
    /\ gRet[1].op = "Initialize"
    /\ IsConfigError(gRet[1].err)
    /\ gRet[2].op = "Initialize"
    /\ gRet[2].installed
    /\ initialized
    /\ globalClient.id = 1


\* --------------------------------------------------------------------- C13
\* The condition under which the claim says Validate fails.
InvalidConfig(c) ==
    \/ c.FalAPIKey = EmptyString
    \/ c.ReveniumAPIKey = EmptyString
    \/ ~HasPrefix(c.ReveniumAPIKey, hakPrefix)

\* C13: Validate returns a Configuration error exactly when the Fal key is
\* empty, the Revenium key is empty or the Revenium key does not start with
\* "hak_", and nil otherwise; the Config is the same after the call as
\* before it.
C13_ValidateIffKeysWellFormed ==
    validateErr # Unset
        => /\ InvalidConfig(cfgSeen) <=> IsConfigError(validateErr)
           /\ ~InvalidConfig(cfgSeen) => validateErr = NilErr
           /\ cfg = cfgSeen

\* C13 witness: a Config whose Revenium key is the bare prefix "hak_" has
\* been accepted.
C13_BarePrefixAccepted ==
    /\ validateErr = NilErr
    /\ cfgSeen.ReveniumAPIKey = hakPrefix
    /\ cfgSeen.FalAPIKey # EmptyString


\* ---------------------------------------------------------------- C14..C16
Normalized == args.fn = "normalizeModelName"

\* "fal_ai/fal-ai/": the prefix the tests and the changelog call canonical.
CanonicalPrefix == litellmPrefix \o falPrefix

\* Number of places at which sub occurs in s.
Occurrences(s, sub) ==
    Cardinality({i \in 1..(Len(s) - Len(sub) + 1) :
                    SubSeq(s, i, i + Len(sub) - 1) = sub})

\* C14: normalizeModelName applied to its own result returns that result,
\* for every model name.
C14_NormalizeIdempotent ==
    (Normalized /\ args.calls = 2) => payload.Model = args.first

\* C14 witness: a bare name was normalized twice and carries the prefix the
\* first call added.
C14_BareNameNormalizedTwice ==
    /\ Normalized
    /\ args.calls = 2
    /\ args.model = fluxDev
    /\ payload.Model = falPrefix \o fluxDev

\* C15: the bare name, the name with "fal-ai/", the name with "fal_ai/" and
\* the name with "fal_ai/fal-ai/" all normalize to "fal_ai/fal-ai/" followed
\* by the endpoint path, for "flux/dev" and "flux-pro/v1.1".
C15_VariantsConverge ==
    \A path \in {fluxDev, fluxPro} :
        (/\ Normalized
         /\ args.calls = 1
         /\ args.model \in {path, falPrefix \o path, litellmPrefix \o path,
                            CanonicalPrefix \o path})
            => payload.Model = CanonicalPrefix \o path

\* C16: a name that does not start with the canonical prefix normalizes to a
\* name that starts with it and holds it exactly once.
C16_PrefixExactlyOnce ==
    (Normalized /\ args.calls = 1 /\ ~HasPrefix(args.model, CanonicalPrefix))
        => /\ HasPrefix(payload.Model, CanonicalPrefix)
           /\ Occurrences(payload.Model, CanonicalPrefix) = 1

\* ---------------------------------------------------------------- C17, C18
VideoBuilt == args.fn = "buildVideoMeteringPayload"

\* The response carries a positive duration.
ActualPresent ==
    /\ ~args.videoResp.nil
    /\ Positive(args.videoResp.Video.Duration)

\* The requested duration, trimmed, parses to a positive number.
RequestedPresent ==
    /\ ~ParseFloat(TrimSpace(args.requestedDuration)).err
    /\ Positive(ParseFloat(TrimSpace(args.requestedDuration)).val)

RequestedValue == ParseFloat(TrimSpace(args.requestedDuration)).val

\* C17: with r the requested and a the response duration: both present give
\* durationSeconds = a and requestedDurationSeconds = r; a alone gives a for
\* both; r alone gives r for both; neither leaves both unset.  ("5", 7.2)
\* gives 7.2 and 5.0, ("", 7.2) gives 7.2 twice, ("10", 0 or no response)
\* gives 10.0 twice.
C17_DurationFallbackChain ==
    VideoBuilt =>
        /\ (RequestedPresent /\ ActualPresent)
              => /\ payload.DurationSeconds
                        = PtrTo(args.videoResp.Video.Duration)
                 /\ payload.RequestedDurationSeconds = PtrTo(RequestedValue)
        /\ (~RequestedPresent /\ ActualPresent)
              => /\ payload.DurationSeconds
                        = PtrTo(args.videoResp.Video.Duration)
                 /\ payload.RequestedDurationSeconds
                        = PtrTo(args.videoResp.Video.Duration)
        /\ (RequestedPresent /\ ~ActualPresent)
              => /\ payload.DurationSeconds = PtrTo(RequestedValue)
                 /\ payload.RequestedDurationSeconds = PtrTo(RequestedValue)
        /\ (~RequestedPresent /\ ~ActualPresent)
              => /\ payload.DurationSeconds = NilPtr
                 /\ payload.RequestedDurationSeconds = NilPtr
        /\ (/\ args.requestedDuration = <<"5">>
            /\ ~args.videoResp.nil
            /\ args.videoResp.Video.Duration = Finite(72))
              => /\ payload.DurationSeconds = PtrTo(Finite(72))
                 /\ payload.RequestedDurationSeconds = PtrTo(Finite(50))
        /\ (/\ args.requestedDuration = EmptyString
            /\ ~args.videoResp.nil
            /\ args.videoResp.Video.Duration = Finite(72))
              => /\ payload.DurationSeconds = PtrTo(Finite(72))
                 /\ payload.RequestedDurationSeconds = PtrTo(Finite(72))
        /\ (/\ args.requestedDuration = <<"1", "0">>
            /\ \/ args.videoResp.nil
               \/ args.videoResp.Video.Duration = Finite(0))
              => /\ payload.DurationSeconds = PtrTo(Finite(100))
                 /\ payload.RequestedDurationSeconds = PtrTo(Finite(100))

\* C17 witness: "10" was requested and the response carries no duration;
\* both fields are 10.0.
C17_RequestedStandsInForActual ==
    /\ VideoBuilt
    /\ args.requestedDuration = <<"1", "0">>
    /\ ~args.videoResp.nil
    /\ args.videoResp.Video.Duration = Finite(0)
    /\ payload.DurationSeconds = PtrTo(Finite(100))
    /\ payload.RequestedDurationSeconds = PtrTo(Finite(100))

\* Requested durations that do not parse ("abc", "5s", "1 0", " ") or parse
\* to a number that is not positive ("0", "0.0", "-5", "NaN").
UnusableDurations ==
    { <<"a", "b", "c">>, <<"5", "s">>, <<"1", " ", "0">>, <<" ">>, <<"0">>,
      <<"0", ".", "0">>, <<"-", "5">>, <<"N", "a", "N">> }

\* C18: a requested duration that does not parse after trimming, or parses
\* to a non-positive number, is treated as absent: a VIDEO record is still
\* returned and both duration fields come from the response duration if it
\* is positive and stay unset otherwise; " 5 " and "10\n" are read as 5 and
\* 10.
C18_UnparsableDurationIsAbsent ==
    VideoBuilt =>
        /\ payload.OperationType = "VIDEO"
        /\ (\/ args.requestedDuration \in UnusableDurations
            \/ ~RequestedPresent)
              => /\ payload.RequestedDurationSeconds
                        = IF ActualPresent
                          THEN PtrTo(args.videoResp.Video.Duration)
                          ELSE NilPtr
                 /\ payload.DurationSeconds
                        = payload.RequestedDurationSeconds
        /\ args.requestedDuration = <<" ", "5", " ">>
              => payload.RequestedDurationSeconds = PtrTo(Finite(50))
        /\ args.requestedDuration = <<"1", "0", "\n">>
              => payload.RequestedDurationSeconds = PtrTo(Finite(100))

\* C18 witness: "abc" was requested and the response lasts 7.2 seconds; the
\* record has 7.2 in both fields.
C18_UnparsableWithActual ==
    /\ VideoBuilt
    /\ args.requestedDuration = <<"a", "b", "c">>
    /\ ~args.videoResp.nil
    /\ args.videoResp.Video.Duration = Finite(72)
    /\ payload.RequestedDurationSeconds = PtrTo(Finite(72))
    /\ payload.DurationSeconds = PtrTo(Finite(72))

\* ---------------------------------------------------------------- C19, C20
ImageBuilt == args.fn = "buildImageMeteringPayload"

\* C19: for a non-nil image response both count fields are the number of
\* images in it (0 included); the attributes are the width and height of
\* the first image, however many images follow and whatever their sizes;
\* with no image there are no attributes.
C19_CountsAndFirstImageSize ==
    (ImageBuilt /\ ~args.imageResp.nil) =>
        /\ payload.ActualImageCount = PtrTo(Len(args.imageResp.Images))
        /\ payload.RequestedImageCount = PtrTo(Len(args.imageResp.Images))
        /\ Len(args.imageResp.Images) = 0
              => payload.Attributes = NoAttributes
        /\ Len(args.imageResp.Images) > 0
              => /\ DOMAIN payload.Attributes = {"width", "height"}
                 /\ payload.Attributes["width"]
                        = args.imageResp.Images[1].Width
                 /\ payload.Attributes["height"]
                        = args.imageResp.Images[1].Height

\* C19 witness: a response with two images of different sizes; the record
\* counts 2 and has the size of the first.
C19_TwoImagesOfDifferentSize ==
    /\ ImageBuilt
    /\ ~args.imageResp.nil
    /\ Len(args.imageResp.Images) = 2
    /\ args.imageResp.Images[1].Width = 1024
    /\ args.imageResp.Images[2].Width = 512
    /\ payload.ActualImageCount = PtrTo(2)
    /\ payload.Attributes["width"] = 1024

\* C20: every record a builder returns has a non-empty transaction id, the
\* operation kind of its builder, a non-empty model, and a response time
\* that is the request time plus the elapsed duration and not before the
\* request time.
C20_RequiredFieldsPresent ==
    (ImageBuilt \/ VideoBuilt) =>
        /\ Len(payload.TransactionID) > 0
        /\ payload.OperationType = IF ImageBuilt THEN "IMAGE" ELSE "VIDEO"
        /\ payload.Model # EmptyString
        /\ payload.RequestTime = args.requestTime
        /\ payload.ResponseTime = args.requestTime + args.duration
        /\ payload.ResponseTime >= payload.RequestTime

\* C20 witness: an image record built from an empty model name, a nil
\* response and nil metadata.
C20_RecordFromEmptyInputs ==
    /\ ImageBuilt
    /\ args.model = EmptyString
    /\ args.imageResp.nil
    /\ args.metadata = NilMap
    /\ payload.Model = falPrefix
    /\ payload.OperationType = "IMAGE"

\* ---------------------------------------------------------------------- C21
\* C21: the metering records of two distinct generation calls never carry
\* the same transaction id, also when their background tasks read the clock
\* at the same instant.
C21_TransactionIdsUnique ==
    \A c, d \in Calls :
        (c # d /\ txId[c] # Unset /\ txId[d] # Unset) => txId[c] # txId[d]

\* ---------------------------------------------------------------------- C22
\* The recognized metadata keys, each with the record field it is copied to
\* and the type its value must have.
RecognizedKeys ==
    { <<"organizationId", "OrganizationID", "string">>,
      <<"productId", "ProductID", "string">>,
      <<"taskType", "TaskType", "string">>,
      <<"agent", "Agent", "string">>,
      <<"subscriptionId", "SubscriptionID", "string">>,
      <<"traceId", "TraceID", "string">>,
      <<"parentTransactionId", "ParentTransactionID", "string">>,
      <<"traceType", "TraceType", "string">>,
      <<"traceName", "TraceName", "string">>,
      <<"environment", "Environment", "string">>,
      <<"region", "Region", "string">>,
      <<"retryNumber", "RetryNumber", "int">>,
      <<"credentialAlias", "CredentialAlias", "string">>,
      <<"subscriber", "Subscriber", "map">>,
      <<"taskId", "TaskID", "string">>,
      <<"videoJobId", "VideoJobID", "string">>,
      <<"audioJobId", "AudioJobID", "string">>,
      <<"responseQualityScore", "ResponseQualityScore", "float64">> }

\* A record field that holds a value of the type / that is unset.
FieldHolding(type, v) ==
    IF type \in {"int", "float64"} THEN PtrTo(v) ELSE v

FieldUnset(type) ==
    CASE type = "string" -> ""
      [] type \in {"int", "float64"} -> NilPtr
      [] type = "map" -> NilMap

\* The entries of md under recognized keys with values of the expected
\* type.
WellTypedPart(md) ==
    IF md.nil
    THEN md
    ELSE MakeMap([k \in {x \in DOMAIN md.kv :
                            \E r \in RecognizedKeys :
                                r[1] = x /\ md.kv[x][1] = r[3]} |->
                     md.kv[k]])

\* A builder has returned a record.
RecordBuilt ==
    args.fn \in {"buildImageMeteringPayload", "buildVideoMeteringPayload"}

\* The record the same builder call returns when only the metadata differs.
RebuiltWith(md) ==
    IF args.fn = "buildImageMeteringPayload"
    THEN buildImageMeteringPayload(
             args.model, args.imageResp, md, args.duration, args.requestTime,
             args.capturePrompts, args.prompt, args.outputURLs,
             payload.TransactionID[1], payload.TransactionID[3])
    ELSE buildVideoMeteringPayload(
             args.model, args.videoResp, md, args.duration, args.requestTime,
             args.requestedDuration, args.capturePrompts, args.prompt,
             args.outputURL, payload.TransactionID[1],
             payload.TransactionID[3])

\* The image and the video record built from the metadata md alone.
ImageRecordOf(md) ==
    buildImageMeteringPayload(fluxDev, NilResponse, md, 0, 0, FALSE,
                              EmptyPrompt, <<>>, 0, 0)

VideoRecordOf(md) ==
    buildVideoMeteringPayload(fluxDev, NilResponse, md, 0, 0, EmptyString,
                              FALSE, EmptyPrompt, "", 0, 0)

C23_TotalCostCopied ==
    (/\ RecordBuilt
     /\ ~args.metadata.nil
     /\ "totalCost" \in DOMAIN args.metadata.kv
     /\ args.metadata.kv["totalCost"][1] \in {"float64", "int"})
        => payload.TotalCost =
               IF args.metadata.kv["totalCost"][1] = "float64"
               THEN PtrTo(args.metadata.kv["totalCost"][2])
               ELSE PtrTo(Finite(10 * args.metadata.kv["totalCost"][2]))

\* ---------------------------------------------------------------------- C24
\* A builder was called with capture enabled and a non-empty prompt.
PromptCaptured ==
    /\ RecordBuilt
    /\ args.capturePrompts
    /\ args.prompt # EmptyPrompt

\* The number of characters of the prompt the builder was called with.
PromptCharacters == args.prompt.len \div args.prompt.width

\* C24: with capture enabled, promptsTruncated is true exactly when the
\* prompt has more than 50,000 characters; a prompt of up to 50,000
\* characters is captured whole and without the marker; a longer one is
\* captured as its first 50,000 characters followed by the marker.
C24_TruncatedIffOver50000Characters ==
    PromptCaptured =>
        /\ payload.PromptsTruncated = (PromptCharacters > 50000)
        /\ PromptCharacters <= 50000 =>
               /\ payload.InputMessages.len = args.prompt.len
               /\ ~payload.InputMessages.marked
        /\ PromptCharacters > 50000 =>
               /\ payload.InputMessages.len = 50000 * args.prompt.width
               /\ payload.InputMessages.marked

\* ---------------------------------------------------------------------- C25
\* The record the same builder call returns with the capture flag off, no
\* prompt and no output URL.
RebuiltWithoutPrompt ==
    IF args.fn = "buildImageMeteringPayload"
    THEN buildImageMeteringPayload(
             args.model, args.imageResp, args.metadata, args.duration,
             args.requestTime, FALSE, EmptyPrompt, <<>>,
             payload.TransactionID[1], payload.TransactionID[3])
    ELSE buildVideoMeteringPayload(
             args.model, args.videoResp, args.metadata, args.duration,
             args.requestTime, args.requestedDuration, FALSE, EmptyPrompt,
             "", payload.TransactionID[1], payload.TransactionID[3])

\* C25: a record built with the capture flag off, or with an empty prompt,
\* has no inputMessages, no outputResponse and promptsTruncated = false,
\* and is the very record built without any prompt and output URL; a
\* record built with the flag on and a non-empty prompt carries the prompt.
C25_PromptCaptureIsOptIn ==
    RecordBuilt =>
        IF args.capturePrompts /\ args.prompt # EmptyPrompt
        THEN /\ payload.InputMessages # NoInputMessages
             /\ payload.InputMessages.text = args.prompt.text
        ELSE /\ payload.InputMessages = NoInputMessages
             /\ payload.OutputResponse = <<>>
             /\ payload.PromptsTruncated = FALSE
             /\ payload = RebuiltWithoutPrompt

\* An image record was built with the flag off from a prompt over the limit
\* and two output URLs, and holds none of them.
C25_LongPromptNotCaptured ==
    /\ args.fn = "buildImageMeteringPayload"
    /\ ~args.capturePrompts
    /\ args.prompt.len > MaxPromptLength
    /\ Len(args.outputURLs) = 2
    /\ payload.InputMessages = NoInputMessages
    /\ payload.OutputResponse = <<>>
    /\ ~payload.PromptsTruncated

\* ---------------------------------------------------------------------- C26
MergeReturned == mdCall.fn = "MergeMetadata"

\* The maps of the example: {a:1, b:2}, {b:3, c:4} and {a:1, b:3, c:4}.
ExampleBase == MakeMap([a |-> IntValue(1), b |-> IntValue(2)])

ExampleOverride == MakeMap([b |-> IntValue(3), c |-> IntValue(4)])

ExampleMerged ==
    MakeMap([a |-> IntValue(1), b |-> IntValue(3), c |-> IntValue(4)])

\* What the latest MergeMetadata call returned, against its arguments.
MergeResultIsUnion ==
    MergeReturned =>
        LET base == Deref(mdCall.base)
            override == Deref(mdCall.override)
            merged == Deref(mdCall.ret)
        IN  IF mdCall.base = NilMapRef /\ mdCall.override = NilMapRef
            THEN mdCall.ret = NilMapRef
            ELSE /\ mdCall.ret \notin
                        {NilMapRef, mdCall.base, mdCall.override}
                 /\ ~merged.nil
                 /\ DOMAIN merged.kv
                        = (DOMAIN base.kv) \cup (DOMAIN override.kv)
                 /\ \A k \in DOMAIN merged.kv :
                        merged.kv[k] = IF k \in DOMAIN override.kv
                                       THEN override.kv[k]
                                       ELSE base.kv[k]
                 /\ (base = ExampleBase /\ override = ExampleOverride)
                        => merged = ExampleMerged

\* A MergeMetadata call leaves every map allocated before it as it was and
\* returns nil or a map allocated by the call.
MergeAllocates ==
    (mdCall' # mdCall /\ mdCall'.fn = "MergeMetadata") =>
        /\ Len(maps') >= Len(maps)
        /\ \A m \in 1..Len(maps) : maps'[m] = maps[m]
        /\ mdCall'.ret \notin 1..Len(maps)

\* C26: MergeMetadata(base, override) returns the union of the two maps
\* with override's value on every key both hold ({a:1,b:2} and {b:3,c:4}
\* give {a:1,b:3,c:4}), a nil argument counting as empty beside a non-nil
\* one; it returns nil when both are nil; it modifies neither argument and
\* its result is a map that did not exist before the call.
C26_MergeIsOverrideWinsUnion ==
    []MergeResultIsUnion /\ [][MergeAllocates]_vars

\* The example was merged: base {a:1,b:2} and override {b:3,c:4}, two
\* different maps, gave a third map {a:1,b:3,c:4}.
C26_ExampleMerged ==
    /\ MergeReturned
    /\ mdCall.base # NilMapRef
    /\ mdCall.override # NilMapRef
    /\ Deref(mdCall.base) = ExampleBase
    /\ Deref(mdCall.override) = ExampleOverride
    /\ Deref(mdCall.ret) = ExampleMerged

\* ---------------------------------------------------------------------- C27
\* The contexts from ctx up to, and without, context.Background().
RECURSIVE Chain(_)
Chain(ctx) ==
    IF ctx = Background THEN <<>> ELSE <<ctx>> \o Chain(ctxs[ctx].parent)

IsAttach(ctx) == ctxs[ctx].key = usageMetadataKey

\* The map of the latest WithUsageMetadata on the chain of ctx, nil when
\* there is none.
LastAttached(ctx) ==
    IF SelectSeq(Chain(ctx), IsAttach) = <<>>
    THEN NilMapRef
    ELSE ctxs[SelectSeq(Chain(ctx), IsAttach)[1]].value

MetadataRoundTrip ==
    /\ mdCall.fn = "WithUsageMetadata" =>
           GetUsageMetadata(mdCall.ret) = mdCall.metadata
    /\ mdCall.fn = "GetUsageMetadata" =>
           mdCall.ret = IF mdCall.ctx = NilContext
                        THEN NilMapRef
                        ELSE LastAttached(mdCall.ctx)

\* Reading changes no map and no context; attaching changes no map and no
\* context that existed.
MetadataCallsModifyNothing ==
    /\ (mdCall' # mdCall /\ mdCall'.fn = "GetUsageMetadata") =>
           maps' = maps /\ ctxs' = ctxs
    /\ (mdCall' # mdCall /\ mdCall'.fn = "WithUsageMetadata") =>
           /\ maps' = maps
           /\ \A c \in 1..Len(ctxs) : ctxs'[c] = ctxs[c]

\* C27: GetUsageMetadata on the context WithUsageMetadata(ctx, m) returned
\* gives m; GetUsageMetadata gives the map of the latest attach on the
\* context's chain, that very map and not a merge with earlier ones, and
\* nil for a nil context or a chain without attach; reading modifies
\* neither the maps nor the contexts.
C27_MetadataContextRoundTrip ==
    []MetadataRoundTrip /\ [][MetadataCallsModifyNothing]_vars

\* GetUsageMetadata was called on a context with two attaches of different
\* maps on its chain and returned the map of the later one.
C27_LastOfTwoAttachesRead ==
    /\ mdCall.fn = "GetUsageMetadata"
    /\ mdCall.ctx = 2
    /\ Len(ctxs) >= 2
    /\ ctxs[2].parent = 1
    /\ IsAttach(1)
    /\ IsAttach(2)
    /\ ctxs[1].value # NilMapRef
    /\ ctxs[2].value # NilMapRef
    /\ Deref(ctxs[1].value) # Deref(ctxs[2].value)
    /\ mdCall.ret = ctxs[2].value

\* ---------------------------------------------------------------------- C28
\* "https://x"
HostX == <<"h", "t", "t", "p", "s", ":", "/", "/", "x">>

HasSuffix(s, suffix) ==
    /\ Len(s) >= Len(suffix)
    /\ SubSeq(s, Len(s) - Len(suffix) + 1, Len(s)) = suffix

\* s without one trailing slash.
WithoutSlash(s) == IF HasSuffix(s, <<"/">>) THEN DropLast(s, 1) ELSE s

\* s without a trailing "/meter/v2" or, failing that, "/meter".
WithoutLegacy(s) ==
    IF HasSuffix(s, meterV2Suffix)
    THEN DropLast(s, 9)
    ELSE IF HasSuffix(s, meterSuffix) THEN DropLast(s, 6) ELSE s

\* C28: NormalizeReveniumBaseURL maps "" to "https://api.revenium.ai" and
\* any other URL to itself without one trailing slash and without a
\* trailing "/meter/v2" or "/meter"; "https://x/meter/v2", "https://x/meter"
\* and "https://x/" give "https://x", and "https://x" is unchanged.
C28_BaseURLNormalized ==
    urlArg # Unset =>
        /\ urlArg = EmptyString => urlRet = defaultBaseURL
        /\ urlArg # EmptyString =>
               urlRet = WithoutLegacy(WithoutSlash(urlArg))
        /\ urlArg = HostX \o meterV2Suffix => urlRet = HostX
        /\ urlArg = HostX \o meterSuffix => urlRet = HostX
        /\ urlArg = HostX \o <<"/">> => urlRet = HostX
        /\ urlArg = HostX => urlRet = HostX

\* "https://x/meter/v2" was normalized to "https://x".
C28_LegacyPathStripped ==
    /\ urlArg = HostX \o meterV2Suffix
    /\ urlRet = HostX

TaskIgnoresContext ==
    \A c \in Calls :
        (cancelled[c] /\ ~crashed) =>
            /\ taskPc[c] = "pending" => ENABLED TaskStart(c)
            /\ taskPc[c] = "build" => ENABLED TaskBuild(c)
            /\ taskPc[c] = "sleep" => ENABLED TaskWake(c)
            /\ taskPc[c] = "posting" =>
                   \A o \in Outcomes : ENABLED TaskResponse(c, {o})
            /\ \A i \in 1..Len(sent[c]) :
                   sent[c][i].ctx # CallerContext(c)

\* The cancellation itself changes nothing of the task, of its delivery or
\* of the in-flight counter.
CancelLeavesTask ==
    cancelled' # cancelled =>
        UNCHANGED <<taskPc, wg, wgDone, panicked, deliveryVars>>

\* C30: cancelling the caller's context after the provider call has
\* succeeded does not abort the dispatched metering task: the task goes on
\* to build its record and to make its delivery attempts, each of which
\* can end with any answer, as if the context had not been cancelled.
C30_CancelDoesNotAbortTask ==
    []TaskIgnoresContext /\ [][CancelLeavesTask]_vars

\* The context was cancelled after the dispatch, before the task had
\* started; the task then built its record and posted it three times, the
\* third time with success.
C30_DeliveredAfterCancel ==
    \E c \in Calls :
        /\ provOut[c] = "ok"
        /\ cancelled[c]
        /\ cancelAt[c].task = "pending"
        /\ taskPc[c] = "done"
        /\ posts[c] = 3
        /\ sendErr[c] = NilErr

\* ---------------------------------------------------------------------- C31
\* A step enters the provider call only from Idle, the provider's outcome
\* is set only by the step that ends that call, and once set it never
\* changes: the provider is called once per invocation.
ProviderCalledOnce ==
    \A c \in Calls :
        /\ (callPc'[c] = "provider" /\ callPc[c] # "provider") =>
               callPc[c] = "idle"
        /\ provOut'[c] # provOut[c] =>
               /\ provOut[c] = "pending"
               /\ callPc[c] = "provider"
               /\ callPc'[c] # "provider"

\* A failed provider call has returned nil and the provider's own error.
ProviderErrorReturnedAsIs ==
    \A c \in Calls :
        provOut[c] \in ProviderErrors =>
            /\ callPc[c] = "returned"
            /\ result[c].resp = "nil"
            /\ result[c].err = provOut[c]

\* C31: every GenerateImage / GenerateVideo invocation calls the provider
\* exactly once, never again after a failure, and a failure is returned to
\* the caller as the error the provider collaborator produced, with a nil
\* response.
C31_ProviderNeverRetried ==
    []ProviderErrorReturnedAsIs /\ [][ProviderCalledOnce]_vars

\* Every call has returned, one with the provider's network error and one
\* with the provider's own error.
C31_BothProviderErrorsReturned ==
    /\ \A c \in Calls : callPc[c] = "returned"
    /\ \E c, d \in Calls :
           /\ result[c] = [resp |-> "nil", err |-> "NETWORK"]
           /\ result[d] = [resp |-> "nil", err |-> "PROVIDER"]

\* ---------------------------------------------------------------------- C32
\* The kinds a status or a transport failure is to be classified as: a 4xx
\* answer is a Validation error, a transport failure a Network error, any
\* other answer outside 2xx a Metering error; the error of an exhausted
\* delivery is a Metering error around the last attempt's.
KindsOfOutcome(o, last) ==
    (IF Is4xx(o) THEN {"VALIDATION"}
     ELSE IF o = TransportFailure THEN {"NETWORK"} ELSE {"METERING"})
    \cup (IF last /\ ~Is4xx(o) THEN {"METERING"} ELSE {})

\* C32: each of the five predicates answers true for an error of its kind
\* and false for an error of another kind, at the top level, below plain
\* wrappers and inside an error of another kind; of the errors the retry
\* decision of sendMetering sees, IsValidationError is true exactly for
\* those of a 4xx answer.
C32_PredicatesClassifyWrappedErrors ==
    /\ errCall.origin \in {"wrapped", "nested"} =>
           \A k \in ErrorKinds : errCall.is[k] <=> k \in errCall.kinds
    /\ errCall.origin = "request" =>
           \A k \in ErrorKinds :
               errCall.is[k] <=>
                   k \in KindsOfOutcome(errCall.outcome, errCall.last)
    /\ errCall.origin = "marshal" =>
           \A k \in ErrorKinds : errCall.is[k] <=> k = "METERING"

\* A Network error below two plain wrappers inside a Metering error is
\* recognized as both, and as nothing else.
C32_NetworkInsideMetering ==
    /\ errCall.origin = "nested"
    /\ errCall.err = <<"METERING", "plain", "plain", "NETWORK">>
    /\ {k \in ErrorKinds : errCall.is[k]} = {"METERING", "NETWORK"}

\* ---------------------------------------------------------------------- C33
\* The counter is the number of tasks dispatched and not finished; a call
\* has a task exactly when its provider call succeeded, and a task has
\* called wg.Done exactly when it has finished, once.
CounterCountsInFlight ==
    /\ wg = Cardinality(InFlight)
    /\ wg >= 0
    /\ \A c \in Calls :
           /\ taskPc[c] # "none" <=> provOut[c] = "ok"
           /\ wgDone[c] = (IF taskPc[c] = "done" THEN 1 ELSE 0)
           /\ callPc[c] \in {"dispatched", "returned"} /\ taskPc[c] # "done"
                  /\ provOut[c] = "ok" => wg > 0

\* A task is launched by the step that ends a successful provider call,
\* which also adds one to the counter; the step that finishes a task takes
\* one from it; no other step changes the counter.
CounterSteps ==
    /\ \A c \in Calls :
           /\ taskPc[c] = "none" /\ taskPc'[c] # "none" =>
                  /\ callPc[c] = "provider" /\ provOut'[c] = "ok"
                  /\ taskPc'[c] = "pending"
                  /\ wg' = wg + 1
           /\ wgDone'[c] # wgDone[c] =>
                  /\ wgDone[c] = 0 /\ wgDone'[c] = 1
                  /\ wg' = wg - 1
    /\ wg' # wg =>
           \E c \in Calls :
               \/ taskPc[c] = "none" /\ taskPc'[c] = "pending"
               \/ wgDone'[c] # wgDone[c]

\* C33: the in-flight counter of a client always equals the number of its
\* dispatched and unfinished metering tasks; it is incremented in the step
\* that launches a task, before the call returns, decremented once per
\* task, and never negative; a successful call dispatches exactly one task.
C33_CounterEqualsInFlightTasks ==
    []CounterCountsInFlight /\ [][CounterSteps]_vars

\* Close was called after two calls had returned and waits while the
\* counter still holds both of their tasks.
C33_CloseSeesBothTasks ==
    /\ flushPc = "waiting"
    /\ wg = 2
    /\ Cardinality(ReturnedBeforeFlush) = 2

\* ---------------------------------------------------------------------- C34
\* Where a call is: 0 Idle, 1 ProviderCallInFlight, 2 ProviderCallComplete
\* (failed, or succeeded with its task dispatched and not yet running),
\* 3 MeteringInFlight, 4 Done.
Phase(c) ==
    CASE taskPc[c] = "done" -> 4
      [] taskPc[c] \in {"build", "posting", "sleep"} -> 3
      [] callPc[c] = "idle" -> 0
      [] callPc[c] = "provider" -> 1
      [] OTHER -> 2

\* A step leaves a call in its phase or moves it to the next one.
PhasesInOrder ==
    \A c \in Calls : Phase(c)' \in {Phase(c), Phase(c) + 1}

\* A record is built and a request is made only in MeteringInFlight and
\* Done, which follow a successful provider call only.
NoMeteringBeforeSuccess ==
    /\ \A c \in Calls :
           /\ Phase(c) >= 3 => provOut[c] = "ok"
           /\ (reqs[c] > 0 \/ posts[c] > 0 \/ taskUrl[c] # "none") =>
                  Phase(c) >= 3
    /\ (record.built \/ bodies # <<>>) => Phase(1) >= 3

\* The elapsed time of the record and of every body sent is the time the
\* provider call took, from the start time read before it.
ElapsedIsProviderTime ==
    /\ record.built =>
           /\ record.payload.RequestTime = captured.startTime
           /\ record.payload.ResponseTime - record.payload.RequestTime
                  = providerTime
           /\ record.payload.RequestDuration = providerTime \div 1000000
    /\ \A i \in 1..Len(bodies) :
           /\ bodies[i].ResponseTime - bodies[i].RequestTime = providerTime
           /\ bodies[i].RequestDuration = providerTime \div 1000000

\* C34: a call goes through Idle, ProviderCallInFlight, ProviderCallComplete,
\* MeteringInFlight and Done in that order; no record is built and no POST
\* is attempted before its provider call has completed successfully, and
\* the elapsed duration of the record covers the provider call only.
C34_PhasesInOrderAndElapsedOfProvider ==
    /\ [](NoMeteringBeforeSuccess /\ ElapsedIsProviderTime)
    /\ [][PhasesInOrder]_vars

\* The clock advanced while the provider call ran and again before the
\* task built the record; the task is done and its record was posted.
C34_TaskRanLaterThanProvider ==
    /\ Phase(1) = 4
    /\ record.built
    /\ bodies # <<>>
    /\ providerTime >= 1
    /\ record.payload.TransactionID[1] - captured.startTime > providerTime

DurationsPaired(p) ==
    /\ (p.DurationSeconds = NilPtr) = (p.RequestedDurationSeconds = NilPtr)
    /\ p.DurationSeconds # NilPtr => Positive(p.DurationSeconds[1])
    /\ p.RequestedDurationSeconds # NilPtr =>
           Positive(p.RequestedDurationSeconds[1])

\* C36: in the record a video call's task built, and in every body
\* serialized from it, durationSeconds and requestedDurationSeconds are both
\* set or both unset, and when set both are strictly positive.
C36_DurationsPairedAndPositive ==
    callKind[1] = "video" =>
        /\ record.built => DurationsPaired(record.payload)
        /\ \A i \in 1..Len(bodies) : DurationsPaired(bodies[i])

\* ---------------------------------------------------------------------- C37
\* C37: whenever no thread holds globalMu, the initialized flag is true
\* exactly when a global client is installed; and no GetClient call, however
\* it interleaves with Initialize, IsInitialized and Reset, has returned a
\* nil client together with a nil error.
C37_FlagIffClientOutsideLock ==
    /\ globalMu = 0 => (initialized <=> globalClient # NilClient)
    /\ \A p \in Procs :
          gRet[p].op = "GetClient" =>
              ~(gRet[p].client = NilClient /\ gRet[p].err = NilErr)

\* C37 witness: thread 1 is inside Reset, holding the lock, and has cleared
\* the client but not yet the flag; thread 2 is in no call and can neither
\* read the flag nor get the client in that state.
C37_ResetBetweenItsTwoWrites ==
    /\ gPc[1] = "resetFlag"
    /\ gPc[2] = "idle"
    /\ globalMu = 1
    /\ initialized
    /\ globalClient = NilClient
    /\ ~ENABLED GetClient(2)
    /\ ~ENABLED IsInitialized(2)

\* ---------------------------------------------------------------------- C38
\* Reset finds a client and its Close returns.
CloseReturns(p) == gPc[p] = "reset" /\ gPc'[p] = "resetClear"

\* Reset returns, having found a client or none.
ResetReturns(p) == gPc[p] \in {"reset", "resetFlag"} /\ gPc'[p] = "idle"

\* Close returns only when no task of the global client is in flight; Reset
\* returns with the flag false, no client and the lock free; a Reset that
\* found no client changed nothing.
ResetDrainsThenClears ==
    \A p \in Procs :
        /\ CloseReturns(p) => clientWg[globalClient.id] = 0
        /\ ResetReturns(p) =>
               /\ gRet'[p] = [op |-> "Reset"]
               /\ ~initialized'
               /\ globalClient' = NilClient
               /\ globalMu' = 0
        /\ (ResetReturns(p) /\ gPc[p] = "reset") =>
               /\ ~initialized
               /\ UNCHANGED <<env, initialized, globalClient, allocated,
                              clientWg>>

\* GetClient on the uninitialized middleware fails with a Configuration
\* error, and an Initialize that installs a client installs a new one, made
\* from its own options, with no task in flight.
UninitializedThenFresh ==
    \A p \in Procs :
        /\ (gRet'[p] # gRet[p] /\ gRet'[p].op = "GetClient" /\ ~initialized)
               => /\ gRet'[p].client = NilClient
                  /\ IsConfigError(gRet'[p].err)
        /\ (gPc[p] = "build" /\ gPc'[p] = "flag") =>
               /\ ~initialized
               /\ globalClient'.id = allocated + 1
               /\ globalClient'.config = EffectiveConfig(gOpts[p])
               /\ clientWg[globalClient'.id] = 0

\* C38 (amended): Reset clears the global state only after every task of
\* the global client that was in flight has ended (its Close returns with
\* the counter at zero); when Reset returns, IsInitialized is false and
\* GetClient fails with a Configuration error; a later Initialize installs a
\* fresh client from its own options; Reset without a client changes
\* nothing.  A task dispatched after the drain, on a client a thread
\* obtained before the Reset, may still be running when Reset returns.
C38_ResetDrainsBeforeClearing ==
    [][ResetDrainsThenClears /\ UninitializedThenFresh]_vars

\* C38 witness: after a Reset a second Initialize installed client 2 with
\* the options of its own call, while a task dispatched on client 1 after
\* its drain is still running.
C38_FreshClientAfterReset ==
    /\ gRet[1].op = "Initialize"
    /\ gRet[1].installed
    /\ gRet[1].opts = ValidOptionsB
    /\ initialized
    /\ globalClient.id = 2
    /\ globalClient.config.ReveniumOrgID = <<"o", "2">>
    /\ gRet[2].op = "GetClient"
    /\ gRet[2].client.id = 1
    /\ clientWg[1] = 1

\* The client a Reset in its last statement has closed and cleared: the
\* last one allocated.
FormerClient == allocated

\* C38 as stated: in addition, no task of the former global client is
\* running when Reset returns.
C38_NoTaskOfFormerClientAtReturn ==
    [][/\ ResetDrainsThenClears
       /\ UninitializedThenFresh
       /\ \A p \in Procs :
             (ResetReturns(p) /\ gPc[p] = "resetFlag")
                 => clientWg'[FormerClient] = 0]_vars

\* ---------------------------------------------------------------------- C39
\* A step of the background task: the task exists and moves, or a record or
\* a request body is made.
TaskStep ==
    \/ taskPc[1] # "none" /\ taskPc'[1] # taskPc[1]
    \/ record' # record
    \/ bodies' # bodies
    \/ posts' # posts
    \/ reqs' # reqs

\* C39: no step of the background task (starting, building the record,
\* serializing it, making a request, taking its answer, sleeping, ending)
\* changes the response returned to the caller, the usage-metadata map of
\* the context or the request.
C39_TaskOnlyReadsItsInputs == [][TaskStep => objects' = objects]_vars

\* C39 witness: the task of a video call with usage metadata is done after
\* two requests; its record points into the response and the metadata, and
\* both and the request are as they were when the provider call completed.
C39_InputsIntactAfterTwoRequests ==
    /\ taskPc[1] = "done"
    /\ callKind[1] = "video"
    /\ Len(bodies) = 2
    /\ record.aliases = {"DurationSeconds", "RequestedDurationSeconds",
                         "Subscriber"}
    /\ objects = atCompletion
    /\ objects.metadata = CallerMetadata
    /\ objects.response.Video.Duration = Finite(72)

\* ---------------------------------------------------------------------- C40
\* The billing fields and the metadata the model's callers attach.
SnapshotFields ==
    {"ActualImageCount", "RequestedImageCount", "DurationSeconds",
     "RequestedDurationSeconds", "OrganizationID", "Subscriber"}

\* The record of the call as the response and the metadata were when the
\* provider call completed.
RecordAtCompletion == BuildPayload(callKind[1], atCompletion, captured, now)

\* C40: in every body sent to the billing endpoint the image counts, the
\* durations in seconds, the organization and the subscriber object are
\* those of the response and the metadata map as they were when the provider
\* call completed, whatever the caller did to them afterwards.
C40_DeliveredRecordIsSnapshot ==
    \A i \in 1..Len(bodies) :
        \A f \in SnapshotFields : bodies[i][f] = RecordAtCompletion[f]

====
